---- MODULE Spec2Model ----
(***************************************************************************)
(* Native Import Checker (src/checker/check_native_imports.py).            *)
(*                                                                         *)
(* The run coordinator (main) loads the whitelist, discovers the wheels,   *)
(* fans one verification task per wheel out over a thread pool, flushes    *)
(* each finished task's log buffer, merges its outcome into the aggregate  *)
(* maps and exits with the run's status.  A task (test_wheel_wrapper /     *)
(* test_wheel_with_logging) provisions a venv, installs the wheel,         *)
(* classifies its native modules and probes each import.                   *)
(*                                                                         *)
(* Text is modelled as a sequence of one-character strings, so that the    *)
(* string operations of the source (lower, in, strip, split, endswith,     *)
(* sorted) are computed and not assumed.  A Python dict is modelled as an  *)
(* insertion-ordered sequence of <<key, value>> pairs with distinct keys.  *)
(***************************************************************************)
EXTENDS Integers, Sequences, FiniteSets, TLC

(***************************************************************************)
(* Bounds of the model.                                                    *)
(***************************************************************************)
\* os.cpu_count() ranges over 1..MaxCpu
MaxCpu == 2
\* longest error text drawn for the whitelist matcher's input space
MaxErrLen == 3
\* most entries in an archive listing drawn for the classifier's input space
MaxEntries == 3

(***************************************************************************)
(* Text                                                                    *)
(***************************************************************************)
UpperChars == <<"A","B","C","D","E","F","G","H","I","J","K","L","M","N","O",
    "P","Q","R","S","T","U","V","W","X","Y","Z">>
LowerChars == <<"a","b","c","d","e","f","g","h","i","j","k","l","m","n","o",
    "p","q","r","s","t","u","v","w","x","y","z">>
\* the printable ASCII characters in code-point order (Python compares
\* strings by code point); the quote, backslash and backquote are left out,
\* no text of the model holds them
AsciiChars == <<" ","!","#","$","%","&","'","(",")","*","+",",","-",
    ".","/","0","1","2","3","4","5","6","7","8","9",":",";","<","=",">","?",
    "@","A","B","C","D","E","F","G","H","I","J","K","L","M","N","O","P","Q",
    "R","S","T","U","V","W","X","Y","Z","[","]","^","_","a","b",
    "c","d","e","f","g","h","i","j","k","l","m","n","o","p","q","r","s","t",
    "u","v","w","x","y","z","{","|","}","~">>
ToLower == [c \in {UpperChars[i] : i \in 1..Len(UpperChars)} |->
              LowerChars[CHOOSE i \in 1..Len(UpperChars) : UpperChars[i] = c]]
OrdOf == [c \in {AsciiChars[i] : i \in 1..Len(AsciiChars)} |->
            CHOOSE i \in 1..Len(AsciiChars) : AsciiChars[i] = c]
\* "\n" sorts below every printable character
Ord(c) == IF c \in DOMAIN OrdOf THEN OrdOf[c] ELSE 0

\* str.lower()
lower(s) == [i \in 1..Len(s) |-> IF s[i] \in DOMAIN ToLower THEN ToLower[s[i]] ELSE s[i]]

\* sub in s
Contains(sub, s) ==
    \E i \in 0..(Len(s) - Len(sub)) : \A j \in 1..Len(sub) : s[i + j] = sub[j]

\* s.startswith(p), s.endswith(p)
StartsWith(s, p) == Len(p) <= Len(s) /\ \A j \in 1..Len(p) : s[j] = p[j]
EndsWith(s, p) ==
    Len(p) <= Len(s) /\ \A j \in 1..Len(p) : s[Len(s) - Len(p) + j] = p[j]

\* index of the first occurrence of sub in s, 0 when there is none
Find(sub, s) ==
    IF Contains(sub, s)
    THEN 1 + CHOOSE i \in 0..(Len(s) - Len(sub)) :
                /\ \A j \in 1..Len(sub) : s[i + j] = sub[j]
                /\ \A k \in 0..(i - 1) : \E j \in 1..Len(sub) : s[k + j] # sub[j]
    ELSE 0

IsSpace(c) == c \in {" ", "\n", "\t", "\r"}

\* str.strip()
RECURSIVE lstrip(_)
lstrip(s) == IF s # <<>> /\ IsSpace(Head(s)) THEN lstrip(Tail(s)) ELSE s
RECURSIVE rstrip(_)
rstrip(s) ==
    IF s # <<>> /\ IsSpace(s[Len(s)]) THEN rstrip(SubSeq(s, 1, Len(s) - 1)) ELSE s
strip(s) == rstrip(lstrip(s))

\* s.rstrip(chars) for a one-character set
RECURSIVE rstripChar(_, _)
rstripChar(s, c) ==
    IF s # <<>> /\ s[Len(s)] = c THEN rstripChar(SubSeq(s, 1, Len(s) - 1), c) ELSE s

\* s.split(sep): the pieces between the occurrences of sep (sep non-empty)
RECURSIVE split(_, _)
split(s, sep) ==
    LET k == Find(sep, s)
    IN  IF k = 0 THEN <<s>>
        ELSE <<SubSeq(s, 1, k - 1)>> \o split(SubSeq(s, k + Len(sep), Len(s)), sep)

\* sep.join(parts)
RECURSIVE join(_, _)
join(sep, parts) ==
    IF parts = <<>> THEN <<>>
    ELSE IF Len(parts) = 1 THEN parts[1]
    ELSE parts[1] \o sep \o join(sep, Tail(parts))

\* s.replace(a, b) for single characters
replace(s, a, b) == [i \in 1..Len(s) |-> IF s[i] = a THEN b ELSE s[i]]

\* s < t in Python's (lexicographic, code point) order
RECURSIVE StrLess(_, _)
StrLess(s, t) ==
    IF t = <<>> THEN FALSE
    ELSE IF s = <<>> THEN TRUE
    ELSE IF Ord(Head(s)) # Ord(Head(t)) THEN Ord(Head(s)) < Ord(Head(t))
    ELSE StrLess(Tail(s), Tail(t))

\* sorted(set(xs)) for a list of texts
RECURSIVE SortedSet(_)
SortedSet(S) ==
    IF S = {} THEN <<>>
    ELSE LET m == CHOOSE x \in S : \A y \in S \ {x} : StrLess(x, y)
         IN  <<m>> \o SortedSet(S \ {m})
Range(xs) == {xs[i] : i \in 1..Len(xs)}
sorted_set(xs) == SortedSet(Range(xs))

(***************************************************************************)
(* Python dicts: insertion-ordered <<key, value>> pairs with distinct keys *)
(***************************************************************************)
EmptyDict == <<>>
Keys(d) == [i \in 1..Len(d) |-> d[i][1]]
HasKey(d, k) == \E i \in 1..Len(d) : d[i][1] = k
\* d.get(k, default)
DictGet(d, k, default) ==
    IF HasKey(d, k) THEN d[CHOOSE i \in 1..Len(d) : d[i][1] = k][2] ELSE default
\* d[k] = v
DictSet(d, k, v) ==
    IF HasKey(d, k)
    THEN [i \in 1..Len(d) |-> IF d[i][1] = k THEN <<k, v>> ELSE d[i]]
    ELSE Append(d, <<k, v>>)
\* d1 == d2 for dicts: the same keys with the same values, in any order
DictEq(d1, d2) ==
    /\ \A i \in 1..Len(d1) : HasKey(d2, d1[i][1]) /\ DictGet(d2, d1[i][1], <<>>) = d1[i][2]
    /\ \A i \in 1..Len(d2) : HasKey(d1, d2[i][1])

(***************************************************************************)
(* JSON values as json.load returns them, tagged with their Python type    *)
(***************************************************************************)
JStr(s) == [t |-> "str", v |-> s]
JDict(pairs) == [t |-> "dict", v |-> pairs]
JInt == [t |-> "int", v |-> <<>>]
JList == [t |-> "list", v |-> <<>>]
JNone == [t |-> "NoneType", v |-> <<>>]
\* bool(x): an empty str, dict or list, and None, are false
Truthy(x) == IF x.t \in {"str", "dict", "list"} THEN x.v # <<>> ELSE x.t # "NoneType"


(***************************************************************************)
(* A line of output: who wrote it (the main thread or the worker of a      *)
(* wheel), the wheel whose log block it belongs to ("" for a line that is  *)
(* in no block) and the line itself, <<tag, argument, ...>>.               *)
(***************************************************************************)
MainThread == "main"
OutLine(by, pkg, line) == [by |-> by, pkg |-> pkg, line |-> line]
Printed(lines) == [i \in 1..Len(lines) |-> OutLine(MainThread, "", lines[i])]

(***************************************************************************)
(* load_whitelist.  The path argument is [given, exists, readable, parses, *)
(* json]: whether a path was passed, whether the file is there, whether    *)
(* open() succeeds, whether json.load succeeds, and what it returns.  The  *)
(* result is [exit, value, printed]: exit is TRUE for sys.exit(1).         *)
(***************************************************************************)
WhitelistPath(given, exists, readable, parses, json) ==
    [given |-> given, exists |-> exists, readable |-> readable,
     parses |-> parses, json |-> json]
LoadReturn(value, lines) == [exit |-> FALSE, value |-> value, printed |-> lines]
LoadExit(lines) == [exit |-> TRUE, value |-> JNone, printed |-> lines]

\* mutant: the patterns of an entry are not checked
CheckPatterns_unchecked(wheel_name, modules) == <<>>

\* the inner loop: the first module whose error pattern is not a string
RECURSIVE CheckPatterns(_, _)
CheckPatterns(wheel_name, modules) ==
    IF modules = <<>> THEN <<>>
    ELSE IF Head(modules)[2].t # "str"
         THEN << <<"Error: Error pattern must be a string", wheel_name, Head(modules)[1]>> >>
         ELSE CheckPatterns(wheel_name, Tail(modules))

\* the outer loop: the error line of the first violation, <<>> when there is none
RECURSIVE CheckEntries(_)
CheckEntries(items) ==
    IF items = <<>> THEN <<>>
    ELSE LET wheel_name == Head(items)[1]
             modules == Head(items)[2]
         IN  IF modules.t # "dict"
             THEN << <<"Error: Whitelist entry must be an object", wheel_name>> >>
             ELSE IF CheckPatterns(wheel_name, modules.v) # <<>>
                  THEN CheckPatterns(wheel_name, modules.v)
                  ELSE CheckEntries(Tail(items))

\* mutant: a file that cannot be parsed gives a warning and the empty
\* whitelist
load_whitelist_lenient(whitelist_path) ==
    IF ~whitelist_path.given THEN LoadReturn(JDict(EmptyDict), <<>>)
    ELSE IF ~whitelist_path.exists
    THEN LoadReturn(JDict(EmptyDict), << <<"Warning: Whitelist file not found">> >>)
    ELSE IF ~whitelist_path.readable
    THEN LoadExit(<< <<"Error: Cannot read whitelist file">> >>)
    ELSE IF ~whitelist_path.parses
    THEN LoadReturn(JDict(EmptyDict), << <<"Warning: Failed to parse whitelist file">> >>)
    ELSE LET whitelist == whitelist_path.json
         IN  IF whitelist.t # "dict"
             THEN LoadExit(<< <<"Error: Whitelist must be a JSON object", whitelist.t>> >>)
             ELSE IF CheckEntries(whitelist.v) # <<>>
             THEN LoadExit(CheckEntries(whitelist.v))
             ELSE LoadReturn(whitelist, << <<"Loaded whitelist", Len(whitelist.v)>> >>)

load_whitelist(whitelist_path) ==
    IF ~whitelist_path.given THEN LoadReturn(JDict(EmptyDict), <<>>)
    ELSE IF ~whitelist_path.exists
    THEN LoadReturn(JDict(EmptyDict), << <<"Warning: Whitelist file not found">> >>)
    ELSE IF ~whitelist_path.readable
    THEN LoadExit(<< <<"Error: Cannot read whitelist file">> >>)
    ELSE IF ~whitelist_path.parses
    THEN LoadExit(<< <<"Error: Failed to parse whitelist file">> >>)
    ELSE LET whitelist == whitelist_path.json
         IN  IF whitelist.t # "dict"
             THEN LoadExit(<< <<"Error: Whitelist must be a JSON object", whitelist.t>> >>)
             ELSE IF CheckEntries(whitelist.v) # <<>>
             THEN LoadExit(CheckEntries(whitelist.v))
             ELSE LoadReturn(whitelist, << <<"Loaded whitelist", Len(whitelist.v)>> >>)

(***************************************************************************)
(* is_whitelisted                                                          *)
(***************************************************************************)
\* mutant: the pattern is compared without lower()
is_whitelisted_case_sensitive(wheel_name, module, error, whitelist) ==
    IF whitelist.t # "dict" \/ wheel_name = "" \/ module = <<>> \/ error = <<>>
    THEN FALSE
    ELSE LET modules == DictGet(whitelist.v, wheel_name, JDict(EmptyDict))
             expected_error == DictGet(modules.v, module, JNone)
         IN  IF ~Truthy(expected_error) \/ expected_error.t # "str"
             THEN FALSE
             ELSE Contains(expected_error.v, error)

is_whitelisted(wheel_name, module, error, whitelist) ==
    IF whitelist.t # "dict" \/ wheel_name = "" \/ module = <<>> \/ error = <<>>
    THEN FALSE
    ELSE LET modules == DictGet(whitelist.v, wheel_name, JDict(EmptyDict))
             expected_error == DictGet(modules.v, module, JNone)
         IN  IF ~Truthy(expected_error) \/ expected_error.t # "str"
             THEN FALSE
             ELSE Contains(lower(expected_error.v), lower(error))

(***************************************************************************)
(* extract_native_modules.  A wheel is [namelist, files]: the archive's    *)
(* entry names and, for the entries that are read, their decoded content   *)
(* ([ok |-> FALSE] for an entry whose bytes are not UTF-8).                *)
(***************************************************************************)
native_extensions == << <<".","s","o">>, <<".","p","y","d">> >>
AbiTagPrefixes == << <<"c","p","y","t","h","o","n","-">>, <<"a","b","i","3">>, <<"p","y","p","y">>, <<"c","p","3">> >>
\* .dist-info/top_level.txt
TopLevelSuffix == <<".","d","i","s","t","-","i","n","f","o","/","t","o","p",
    "_","l","e","v","e","l",".","t","x","t">>

Decoded(content) == [ok |-> TRUE, text |-> content]
Undecodable == [ok |-> FALSE, text |-> <<>>]

\* [m.strip() for m in content.strip().split("\n") if m.strip()]
StrippedLines(content) ==
    LET lines == split(strip(content), <<"\n">>)
    IN  SelectSeq([i \in 1..Len(lines) |-> strip(lines[i])], LAMBDA m : m # <<>>)

\* the first loop: the top-level names of the first top_level.txt entry
RECURSIVE ReadTopLevel(_, _)
ReadTopLevel(all_files, files) ==
    IF all_files = <<>> THEN <<>>
    ELSE IF EndsWith(Head(all_files), TopLevelSuffix)
         THEN LET entry == DictGet(files, Head(all_files), Undecodable)
              IN  IF entry.ok THEN StrippedLines(entry.text) ELSE <<>>
         ELSE ReadTopLevel(Tail(all_files), files)

InSkippedDir(name) ==
    \/ Contains(<<".","d","i","s","t","-","i","n","f","o","/">>, name)
    \/ Contains(<<".","d","a","t","a","/">>, name)
    \/ Contains(<<".","l","i","b","s","/">>, name)
HasNativeExtension(name) ==
    \E i \in 1..Len(native_extensions) : EndsWith(name, native_extensions[i])
\* mutant: the suffix of an entry is not looked at
IsNativeFile_any_suffix(name) == ~InSkippedDir(name)
\* an entry that sets has_native_files
IsNativeFile(name) == ~InSkippedDir(name) /\ HasNativeExtension(name)
Basename(name) == LET path_parts == split(name, <<"/">>) IN path_parts[Len(path_parts)]
\* mutant: no entry is taken for a bundled library
IsBundledLib_never(name) == FALSE
IsBundledLib(name) ==
    StartsWith(Basename(name), <<"l","i","b">>) /\ Contains(<<".","s","o",".">>, Basename(name))

\* the text before the first occurrence of the first extension the name holds
StripExtension(module_path) ==
    IF \E i \in 1..Len(native_extensions) : Contains(native_extensions[i], module_path)
    THEN LET i == CHOOSE k \in 1..Len(native_extensions) :
                      /\ Contains(native_extensions[k], module_path)
                      /\ \A h \in 1..(k - 1) : ~Contains(native_extensions[h], module_path)
         IN  split(module_path, native_extensions[i])[1]
    ELSE module_path

IsAbiTag(part) == \E i \in 1..Len(AbiTagPrefixes) : StartsWith(part, AbiTagPrefixes[i])
\* the parts before the first ABI tag
RECURSIVE CleanParts(_)
CleanParts(parts) ==
    IF parts = <<>> \/ IsAbiTag(Head(parts)) THEN <<>>
    ELSE <<Head(parts)>> \o CleanParts(Tail(parts))

ModuleName(name) ==
    LET module_path == join(<<".">>, CleanParts(split(StripExtension(name), <<".">>)))
    IN  rstripChar(replace(module_path, "/", "."), ".")

\* the second loop: the module names appended, in the order of the entries
RECURSIVE CollectModules(_)
CollectModules(all_files) ==
    IF all_files = <<>> THEN <<>>
    ELSE LET name == Head(all_files)
             rest == CollectModules(Tail(all_files))
         IN  IF ~IsNativeFile(name) \/ IsBundledLib(name) \/ ModuleName(name) = <<>>
             THEN rest
             ELSE <<ModuleName(name)>> \o rest

\* <<modules, top_level_packages>> of a wheel whose archive can be read
extract_native_modules(wheel) ==
    LET top_level_packages == ReadTopLevel(wheel.namelist, wheel.files)
        modules == CollectModules(wheel.namelist)
        has_native_files == \E i \in 1..Len(wheel.namelist) : IsNativeFile(wheel.namelist[i])
    IN  IF modules = <<>> /\ has_native_files /\ top_level_packages # <<>>
        THEN <<top_level_packages, top_level_packages>>
        ELSE <<sorted_set(modules), top_level_packages>>


(***************************************************************************)
(* PackageTestResult                                                       *)
(***************************************************************************)
\* __init__; finish_calls counts the calls of finish, end_time is the
\* length of the log buffer at the last of them (-1 for None), has_used is
\* hasattr(result, "used_whitelist_local")
PackageTestResult(wheel_name) ==
    [wheel_name |-> wheel_name, success |-> FALSE, errors |-> <<>>,
     whitelisted |-> <<>>, logs |-> <<>>, finish_calls |-> 0, end_time |-> -1,
     has_used |-> FALSE, used_whitelist_local |-> {}]
add_log(result, message) == [result EXCEPT !.logs = Append(@, message)]
finish(result, success, errors, whitelisted) ==
    [result EXCEPT !.success = success, !.errors = errors,
                   !.whitelisted = whitelisted, !.finish_calls = @ + 1,
                   !.end_time = Len(result.logs)]
\* before a task has created its result
NoResult == PackageTestResult("")

(***************************************************************************)
(* The texts of the source                                                 *)
(***************************************************************************)
\* venv
TagVenv == <<"v","e","n","v">>
\* install
TagInstall == <<"i","n","s","t","a","l","l">>
\* exception
TagException == <<"e","x","c","e","p","t","i","o","n">>
\* Timeout creating virtual environment
VenvTimeoutMsg == <<"T","i","m","e","o","u","t"," ","c","r","e","a","t","i",
    "n","g"," ","v","i","r","t","u","a","l"," ","e","n","v","i","r","o","n",
    "m","e","n","t">>
\* Failed to create virtual environment
VenvFailedMsg == <<"F","a","i","l","e","d"," ","t","o"," ","c","r","e","a",
    "t","e"," ","v","i","r","t","u","a","l"," ","e","n","v","i","r","o","n",
    "m","e","n","t">>
\* Python executable not found
VenvNoPythonMsg == <<"P","y","t","h","o","n"," ","e","x","e","c","u","t",
    "a","b","l","e"," ","n","o","t"," ","f","o","u","n","d">>
\* Timeout installing wheel
InstallTimeoutMsg == <<"T","i","m","e","o","u","t"," ","i","n","s","t","a",
    "l","l","i","n","g"," ","w","h","e","e","l">>
\* Failed to install wheel
InstallFailedMsg == <<"F","a","i","l","e","d"," ","t","o"," ","i","n","s",
    "t","a","l","l"," ","w","h","e","e","l">>
\* Import timeout (module may be hanging)
ImportTimeoutMsg == <<"I","m","p","o","r","t"," ","t","i","m","e","o","u",
    "t"," ","(","m","o","d","u","l","e"," ","m","a","y"," ","b","e"," ","h",
    "a","n","g","i","n","g",")">>
\* Unknown error
UnknownErrorMsg == <<"U","n","k","n","o","w","n"," ","e","r","r","o","r">>
\* dynamic module does not define module export function
NoExportFunction == <<"d","y","n","a","m","i","c"," ","m","o","d","u","l",
    "e"," ","d","o","e","s"," ","n","o","t"," ","d","e","f","i","n","e"," ",
    "m","o","d","u","l","e"," ","e","x","p","o","r","t"," ","f","u","n","c",
    "t","i","o","n">>
\* ModuleNotFoundError
ModuleNotFound == <<"M","o","d","u","l","e","N","o","t","F","o","u","n","d",
    "E","r","r","o","r">>

(***************************************************************************)
(* The environment the model runs in: the wheels of the packages           *)
(* directory, what the external processes can write, the whitelist files.  *)
(***************************************************************************)
\* every wheel there can be, in the order sorted() gives them
Wheels == <<"a.whl", "b.whl">>
WheelSet == Range(Wheels)

\* a.whl is pure Python; b.whl has two extension modules, a bundled library
\* beside them and one in its .libs directory
ArchiveA ==
    [namelist |-> << <<"a","/","_","_","i","n","i","t","_","_",".","p","y">>, <<"a","-","1",".","0",".","d","i","s","t","-","i","n","f","o","/","t","o","p","_","l","e","v","e","l",".","t","x","t">> >>,
     files |-> << << <<"a","-","1",".","0",".","d","i","s","t","-","i","n","f","o","/","t","o","p","_","l","e","v","e","l",".","t","x","t">>, Decoded(<<"a","\n">>) >> >>]
ArchiveB ==
    [namelist |-> << <<"b","/","_","_","i","n","i","t","_","_",".","p","y">>,
                     <<"b","/","n","a","t","i","v","e",".","c","p","y","t","h","o","n","-","3","1","1","-","x","8","6","_","6","4","-","l","i","n","u","x","-","g","n","u",".","s","o">>,
                     <<"b","/","_","s","p","e","e","d",".","p","y","d">>, <<"b","/","l","i","b","f","o","o",".","s","o",".","1",".","2",".","3">>,
                     <<"b",".","l","i","b","s","/","l","i","b","z","-","1",".","s","o">>, <<"b","-","2",".","0",".","d","i","s","t","-","i","n","f","o","/","t","o","p","_","l","e","v","e","l",".","t","x","t">> >>,
     files |-> << << <<"b","-","2",".","0",".","d","i","s","t","-","i","n","f","o","/","t","o","p","_","l","e","v","e","l",".","t","x","t">>, Decoded(<<"b","\n">>) >> >>]
Archive(w) == IF w = "a.whl" THEN ArchiveA ELSE ArchiveB

\* b.native
ModNative == <<"b",".","n","a","t","i","v","e">>
\* b._speed
ModSpeed == <<"b",".","_","s","p","e","e","d">>

\* what a failing "python -m venv" can leave on stderr
VenvStderrs == << <<>>, <<"E","r","r","o","r",":"," ","e","n","s","u","r","e","p","i","p"," ","f","a","i","l","e","d","\n">> >>
\* <<stderr, stdout>> of a failing "pip install"
InstallOutputs ==
    << << <<"E","R","R","O","R",":"," ","n","o"," ","m","a","t","c","h","i","n","g"," ","d","i","s","t","r","i","b","u","t","i","o","n","\n">>, <<>> >>,
       << <<>>, <<"i","n","s","t","a","l","l"," ","r","e","f","u","s","e","d","\n">> >>,
       << <<>>, <<>> >> >>
\* stderr of a failing import probe
\* Traceback (most recent call last):\nImportError: undefined symbol: xyz\n
StderrUndefined == <<"T","r","a","c","e","b","a","c","k"," ","(","m","o",
    "s","t"," ","r","e","c","e","n","t"," ","c","a","l","l"," ","l","a","s",
    "t",")",":","\n","I","m","p","o","r","t","E","r","r","o","r",":"," ",
    "u","n","d","e","f","i","n","e","d"," ","s","y","m","b","o","l",":"," ",
    "x","y","z","\n">>
\* Traceback (most recent call last):\nModuleNotFoundError: No module named q\n
StderrNotFound == <<"T","r","a","c","e","b","a","c","k"," ","(","m","o","s",
    "t"," ","r","e","c","e","n","t"," ","c","a","l","l"," ","l","a","s","t",
    ")",":","\n","M","o","d","u","l","e","N","o","t","F","o","u","n","d",
    "E","r","r","o","r",":"," ","N","o"," ","m","o","d","u","l","e"," ","n",
    "a","m","e","d"," ","q","\n">>
\* ImportError: dynamic module does not define module export function (PyInit_q)\n
StderrNoExport == <<"I","m","p","o","r","t","E","r","r","o","r",":"," ","d",
    "y","n","a","m","i","c"," ","m","o","d","u","l","e"," ","d","o","e","s",
    " ","n","o","t"," ","d","e","f","i","n","e"," ","m","o","d","u","l","e",
    " ","e","x","p","o","r","t"," ","f","u","n","c","t","i","o","n"," ","(",
    "P","y","I","n","i","t","_","q",")","\n">>
ProbeStderrs == <<StderrUndefined, StderrNotFound, StderrNoExport, <<>>>>
\* str(e) of an exception that escapes test_wheel_with_logging
\* OSError
ExceptionText == <<"O","S","E","r","r","o","r">>

\* the whitelist files: no path given, a path to no file, an unreadable
\* file, a file that is not JSON, JSON of the wrong shape at each level, and
\* well-formed whitelists
WhitelistB ==
    JDict(<< <<"b.whl", JDict(<< <<ModNative, JStr(<<"U","N","D","E","F","I","N","E","D"," ","s","y","m","b","o","l">>)>>,
                                 <<ModSpeed, JStr(<<"t","i","m","e","o","u","t">>)>> >>)>>,
             <<"old.whl", JDict(<< <<<<"o","l","d",".","n","a","t","i","v","e">>, JStr(<<"x">>)>> >>)>> >>)
NoWhitelistPath == WhitelistPath(FALSE, FALSE, FALSE, FALSE, JNone)
WhitelistPaths ==
    << NoWhitelistPath,
       WhitelistPath(TRUE, FALSE, FALSE, FALSE, JNone),
       WhitelistPath(TRUE, TRUE, FALSE, FALSE, JNone),
       WhitelistPath(TRUE, TRUE, TRUE, FALSE, JNone),
       WhitelistPath(TRUE, TRUE, TRUE, TRUE, JList),
       WhitelistPath(TRUE, TRUE, TRUE, TRUE, JStr(<<"b",".","w","h","l">>)),
       WhitelistPath(TRUE, TRUE, TRUE, TRUE,
                     JDict(<< <<"a.whl", JDict(EmptyDict)>>, <<"b.whl", JList>> >>)),
       WhitelistPath(TRUE, TRUE, TRUE, TRUE,
                     JDict(<< <<"b.whl", JDict(<< <<ModNative, JStr(<<"x">>)>>,
                                                  <<ModSpeed, JInt>> >>)>> >>)),
       WhitelistPath(TRUE, TRUE, TRUE, TRUE,
                     JDict(<< <<"b.whl", JDict(<< <<ModNative, JNone>> >>)>> >>)),
       WhitelistPath(TRUE, TRUE, TRUE, TRUE, JDict(EmptyDict)),
       WhitelistPath(TRUE, TRUE, TRUE, TRUE, WhitelistB) >>

\* the packages directory beside the interpreter and the one under the
\* working directory: whether each exists and the files in it
Dir(exists, files) == [exists |-> exists, files |-> files]
BothWheels == <<Dir(TRUE, {"b.whl", "notes.txt", "a.whl"}), Dir(FALSE, {})>>
PackagesDirs ==
    << <<Dir(FALSE, {}), Dir(FALSE, {})>>,
       <<Dir(TRUE, {"notes.txt"}), Dir(TRUE, {"a.whl"})>>,
       <<Dir(FALSE, {}), Dir(TRUE, {"a.whl"})>>,
       BothWheels >>


(***************************************************************************)
(* test_wheel_with_logging, stage by stage.  A finished external process   *)
(* is [timeout, returncode, stderr, stdout]; each stage maps the task's    *)
(* result (and, for the probes, its local variables) and the process to    *)
(* what the code leaves, with returned = TRUE when the function returns.   *)
(***************************************************************************)
Proc(timeout, returncode, stderr, stdout) ==
    [timeout |-> timeout, returncode |-> returncode, stderr |-> stderr, stdout |-> stdout]
\* before the task has run a process
NoProc == Proc(FALSE, 0, <<>>, <<>>)
Stage(returned, result) == [returned |-> returned, result |-> result]

\* mutant: a non-zero exit of python -m venv is recorded and the function
\* does not return
after_venv_no_return(result, proc, python_exists) ==
    IF proc.timeout
    THEN Stage(TRUE, finish(add_log(result, <<"Timeout creating venv">>),
                            FALSE, << <<TagVenv, VenvTimeoutMsg>> >>, <<>>))
    ELSE IF proc.returncode # 0
    THEN Stage(FALSE, finish(add_log(result, <<"Failed to create venv">>),
                             FALSE, << <<TagVenv, VenvFailedMsg>> >>, <<>>))
    ELSE IF ~python_exists
    THEN Stage(TRUE, finish(add_log(add_log(result, <<"Created venv">>),
                                    <<"venv Python not found">>),
                            FALSE, << <<TagVenv, VenvNoPythonMsg>> >>, <<>>))
    ELSE Stage(FALSE, add_log(result, <<"Created venv">>))

\* lines 241-273: python -m venv, then the venv's interpreter must exist
after_venv(result, proc, python_exists) ==
    IF proc.timeout
    THEN Stage(TRUE, finish(add_log(result, <<"Timeout creating venv">>),
                            FALSE, << <<TagVenv, VenvTimeoutMsg>> >>, <<>>))
    ELSE IF proc.returncode # 0
    THEN LET error_msg == IF proc.stderr # <<>> THEN strip(proc.stderr) ELSE VenvFailedMsg
         IN  Stage(TRUE, finish(add_log(result, <<"Failed to create venv">>),
                                FALSE, << <<TagVenv, error_msg>> >>, <<>>))
    ELSE IF ~python_exists
    THEN Stage(TRUE, finish(add_log(add_log(result, <<"Created venv">>),
                                    <<"venv Python not found">>),
                            FALSE, << <<TagVenv, VenvNoPythonMsg>> >>, <<>>))
    ELSE Stage(FALSE, add_log(result, <<"Created venv">>))

\* lines 275-309: pip install --no-index
after_install(result, proc) ==
    IF proc.timeout
    THEN Stage(TRUE, finish(add_log(result, <<"Timeout installing wheel">>),
                            FALSE, << <<TagInstall, InstallTimeoutMsg>> >>, <<>>))
    ELSE IF proc.returncode # 0
    THEN LET error_msg == IF proc.stderr # <<>> THEN strip(proc.stderr)
                          ELSE strip(proc.stdout)
         IN  Stage(TRUE, finish(add_log(result, <<"Failed to install">>), FALSE,
                                << <<TagInstall,
                                     IF error_msg # <<>> THEN error_msg
                                     ELSE InstallFailedMsg>> >>, <<>>))
    ELSE Stage(FALSE, add_log(result, <<"Installed">>))

\* lines 311-320: what follows extract_native_modules
after_classify(result, modules_to_test) ==
    LET analysed == add_log(result, <<"Analyzing wheel for native modules">>)
    IN  IF modules_to_test = <<>>
        THEN Stage(TRUE, finish(add_log(add_log(analysed, <<"No native modules found">>),
                                        <<"All imports successful">>),
                                TRUE, <<>>, <<>>))
        ELSE Stage(FALSE, add_log(analysed, <<"Found native modules", Len(modules_to_test)>>))

\* the local variables of the probe loop (lines 233, 312, 322-326)
Frame(modules_to_test) ==
    [modules_to_test |-> modules_to_test, next |-> 1, failed_imports |-> <<>>,
     whitelisted_imports |-> <<>>, tested_count |-> 0, used_whitelist_local |-> {}]
NoFrame == Frame(<<>>)
Task(result, frame) == [result |-> result, frame |-> frame]

\* lines 340-350 and 374-383: a failed import is counted, matched against
\* the whitelist and recorded
record_failure(task, wheel_name, module, actual_error, whitelist) ==
    LET result == add_log(task.result, <<"Testing import", module>>)
        counted == [task.frame EXCEPT !.tested_count = @ + 1]
    IN  IF is_whitelisted(wheel_name, module, actual_error, whitelist)
        THEN Task(add_log(result, <<"Whitelisted", actual_error>>),
                  [counted EXCEPT
                      !.whitelisted_imports = Append(@, <<module, actual_error>>),
                      !.used_whitelist_local = @ \cup {<<wheel_name, module>>}])
        ELSE Task(add_log(result, <<"Failed", actual_error>>),
                  [counted EXCEPT !.failed_imports = Append(@, <<module, actual_error>>)])

\* lines 359-366: the last line of stderr that is not blank
LastNonBlank(error_lines, default) ==
    IF \E i \in 1..Len(error_lines) : strip(error_lines[i]) # <<>>
    THEN error_lines[CHOOSE i \in 1..Len(error_lines) :
                        /\ strip(error_lines[i]) # <<>>
                        /\ \A k \in (i + 1)..Len(error_lines) : strip(error_lines[k]) = <<>>]
    ELSE default
ActualError(error_msg) ==
    IF error_msg # <<>> THEN LastNonBlank(split(error_msg, <<"\n">>), error_msg)
    ELSE UnknownErrorMsg
\* lines 368-372: the probe found no module to import
IsSkipped(error_msg) ==
    Contains(NoExportFunction, error_msg) \/ Contains(ModuleNotFound, error_msg)

\* mutant: a skipped probe is logged and counted as tested
probe_module_counts_skipped(task, wheel_name, module, proc, whitelist) ==
    IF proc.timeout
    THEN record_failure(task, wheel_name, module, ImportTimeoutMsg, whitelist)
    ELSE IF proc.returncode = 0
    THEN Task(add_log(task.result, <<"Testing import", module>>),
              [task.frame EXCEPT !.tested_count = @ + 1])
    ELSE LET error_msg == strip(proc.stderr)
         IN  IF IsSkipped(error_msg)
             THEN Task(add_log(task.result, <<"Testing import", module>>),
                       [task.frame EXCEPT !.tested_count = @ + 1])
             ELSE record_failure(task, wheel_name, module, ActualError(error_msg), whitelist)

\* mutant: a timeout is recorded as a failure without asking the whitelist
probe_module_timeout_unmatched(task, wheel_name, module, proc, whitelist) ==
    IF proc.timeout
    THEN Task(add_log(add_log(task.result, <<"Testing import", module>>),
                      <<"Failed", ImportTimeoutMsg>>),
              [task.frame EXCEPT
                  !.tested_count = @ + 1,
                  !.failed_imports = Append(@, <<module, ImportTimeoutMsg>>)])
    ELSE IF proc.returncode = 0
    THEN Task(add_log(task.result, <<"Testing import", module>>),
              [task.frame EXCEPT !.tested_count = @ + 1])
    ELSE LET error_msg == strip(proc.stderr)
         IN  IF IsSkipped(error_msg) THEN task
             ELSE record_failure(task, wheel_name, module, ActualError(error_msg), whitelist)

\* lines 326-383: one iteration of the probe loop
probe_module(task, wheel_name, module, proc, whitelist) ==
    IF proc.timeout
    THEN record_failure(task, wheel_name, module, ImportTimeoutMsg, whitelist)
    ELSE IF proc.returncode = 0
    THEN Task(add_log(task.result, <<"Testing import", module>>),
              [task.frame EXCEPT !.tested_count = @ + 1])
    ELSE LET error_msg == strip(proc.stderr)
         IN  IF IsSkipped(error_msg) THEN task
             ELSE record_failure(task, wheel_name, module, ActualError(error_msg), whitelist)

\* mutant: a package with whitelisted failures only is finished as failed
finalize_whitelisted_fails(result, frame) ==
    LET tested == add_log(result, <<"Tested native modules", frame.tested_count>>)
        finished ==
            IF frame.failed_imports # <<>>
            THEN finish(tested, FALSE, frame.failed_imports, frame.whitelisted_imports)
            ELSE IF frame.whitelisted_imports # <<>>
            THEN finish(add_log(tested, <<"All failures are whitelisted">>),
                        FALSE, <<>>, frame.whitelisted_imports)
            ELSE finish(add_log(tested, <<"All imports successful">>), TRUE, <<>>, <<>>)
    IN  [finished EXCEPT !.has_used = TRUE,
                         !.used_whitelist_local = frame.used_whitelist_local]

\* mutant: the verdict line is logged after finish
finalize_logs_after_finish(result, frame) ==
    LET tested == add_log(result, <<"Tested native modules", frame.tested_count>>)
        finished ==
            IF frame.failed_imports # <<>>
            THEN finish(tested, FALSE, frame.failed_imports, frame.whitelisted_imports)
            ELSE IF frame.whitelisted_imports # <<>>
            THEN add_log(finish(tested, TRUE, <<>>, frame.whitelisted_imports),
                         <<"All failures are whitelisted">>)
            ELSE add_log(finish(tested, TRUE, <<>>, <<>>), <<"All imports successful">>)
    IN  [finished EXCEPT !.has_used = TRUE,
                         !.used_whitelist_local = frame.used_whitelist_local]

\* lines 385-401: after the loop
finalize(result, frame) ==
    LET tested == add_log(result, <<"Tested native modules", frame.tested_count>>)
        finished ==
            IF frame.failed_imports # <<>>
            THEN finish(tested, FALSE, frame.failed_imports, frame.whitelisted_imports)
            ELSE IF frame.whitelisted_imports # <<>>
            THEN finish(add_log(tested, <<"All failures are whitelisted">>),
                        TRUE, <<>>, frame.whitelisted_imports)
            ELSE finish(add_log(tested, <<"All imports successful">>), TRUE, <<>>, <<>>)
    IN  [finished EXCEPT !.has_used = TRUE,
                         !.used_whitelist_local = frame.used_whitelist_local]

\* mutant: the wrapper returns the new result without finishing it
exception_result_unfinished(wheel_name, e) ==
    add_log(PackageTestResult(wheel_name), <<"Unexpected error", e>>)

\* test_wheel_wrapper, lines 411-415: the result built for an exception e
exception_result(wheel_name, e) ==
    finish(add_log(PackageTestResult(wheel_name), <<"Unexpected error", e>>),
           FALSE, << <<TagException, e>> >>, <<>>)

(***************************************************************************)
(* The coordinator's pure parts                                            *)
(***************************************************************************)
\* find_packages_dir: the directory beside the interpreter, else the one
\* under the working directory; [found, dir]
find_packages_dir(dirs) ==
    IF dirs[1].exists THEN [found |-> TRUE, dir |-> dirs[1]]
    ELSE IF dirs[2].exists THEN [found |-> TRUE, dir |-> dirs[2]]
    ELSE [found |-> FALSE, dir |-> dirs[2]]

\* sorted(packages_dir.glob("*.whl"))
sorted_wheels(dir) == SelectSeq(Wheels, LAMBDA w : w \in dir.files)

Min(a, b) == IF a < b THEN a ELSE b

\* mutant: the failure map is replaced by the entry of the result merged
merge_result_overwrite(agg, result) ==
    [failed_wheels |-> IF ~result.success
                       THEN << <<result.wheel_name, result.errors>> >>
                       ELSE agg.failed_wheels,
     whitelisted_wheels |-> IF result.whitelisted # <<>>
                            THEN DictSet(agg.whitelisted_wheels, result.wheel_name,
                                         result.whitelisted)
                            ELSE agg.whitelisted_wheels,
     used_whitelist |-> IF result.has_used
                        THEN agg.used_whitelist \cup result.used_whitelist_local
                        ELSE agg.used_whitelist]

\* lines 524-532: one result merged into the aggregate
Aggregate(failed, whitelisted, used) ==
    [failed_wheels |-> failed, whitelisted_wheels |-> whitelisted, used_whitelist |-> used]
merge_result(agg, result) ==
    Aggregate(IF ~result.success
              THEN DictSet(agg.failed_wheels, result.wheel_name, result.errors)
              ELSE agg.failed_wheels,
              IF result.whitelisted # <<>>
              THEN DictSet(agg.whitelisted_wheels, result.wheel_name, result.whitelisted)
              ELSE agg.whitelisted_wheels,
              IF result.has_used
              THEN agg.used_whitelist \cup result.used_whitelist_local
              ELSE agg.used_whitelist)

\* mutant: every declared entry is reported, used or not
find_unused_ignoring_used(whitelist, used_whitelist) ==
    [i \in 1..Len(whitelist.v) |-> <<whitelist.v[i][1], Keys(whitelist.v[i][2].v)>>]

\* find_unused_whitelist_entries
RECURSIVE UnusedEntries(_, _)
UnusedEntries(items, used_whitelist) ==
    IF items = <<>> THEN EmptyDict
    ELSE LET wheel_name == Head(items)[1]
             unused_modules == SelectSeq(Keys(Head(items)[2].v),
                                         LAMBDA module_name :
                                             <<wheel_name, module_name>> \notin used_whitelist)
             rest == UnusedEntries(Tail(items), used_whitelist)
         IN  IF unused_modules # <<>> THEN << <<wheel_name, unused_modules>> >> \o rest
             ELSE rest
find_unused_whitelist_entries(whitelist, used_whitelist) ==
    UnusedEntries(whitelist.v, used_whitelist)

\* mutant: one failed wheel is let through
exit_status_off_by_one(failed) == IF Len(failed) > 1 THEN 1 ELSE 0

\* line 592
exit_status(failed) == IF failed # EmptyDict THEN 1 ELSE 0


(***************************************************************************)
(* State                                                                   *)
(***************************************************************************)
VARIABLES
    whitelist_path,     \* the command line's whitelist argument and its file
    packages_dirs,      \* the two candidate packages directories
    cpu_count,          \* os.cpu_count()
    pc_main,            \* where main is
    whitelist,          \* main's whitelist, JNone until it is loaded
    wheel_files,        \* main's sorted list of wheels
    max_workers,        \* the size of the thread pool
    failed_wheels,      \* main's dict wheel name -> errors
    whitelisted_wheels, \* main's dict wheel name -> whitelisted occurrences
    used_whitelist,     \* main's set of (wheel name, module) keys
    completed_count,    \* main's count of futures as_completed has yielded
    collecting,         \* the wheel whose result the loop body holds, or ""
    printed_logs,       \* how many of its log lines print_logs has printed
    print_lock,         \* the holder of _print_lock, or "free"
    unused_whitelist,   \* what find_unused_whitelist_entries returned
    exit_code,          \* the argument of sys.exit, -1 while main runs
    out,                \* the lines written to stdout, in order
    pc,                 \* per wheel: where its task is
    result,             \* per wheel: the task's PackageTestResult
    frame,              \* per wheel: the task's local variables
    temp_dir,           \* per wheel: whether its TemporaryDirectory exists
    calls,              \* per wheel: the external calls made, <<what, outcome>>
    proc_result,        \* per wheel: what the task's last subprocess.run gave
    query               \* the call of the function under test (SpecMatcher,
                        \* SpecClassifier)

inputs == <<whitelist_path, packages_dirs, cpu_count>>
main_vars == <<pc_main, whitelist, wheel_files, max_workers, failed_wheels,
               whitelisted_wheels, used_whitelist, completed_count, collecting,
               printed_logs, print_lock, unused_whitelist, exit_code>>
task_vars == <<pc, result, frame, temp_dir, calls, proc_result>>
vars == <<inputs, main_vars, task_vars, out, query>>

NoQuery == [wheel_name |-> "", module |-> <<>>, error |-> <<>>,
            whitelist |-> JNone, state |-> "idle", ret |-> FALSE]

\* main before its first statement, no task submitted
MainAtStart ==
    /\ pc_main = "load_whitelist"
    /\ whitelist = JNone
    /\ wheel_files = <<>>
    /\ max_workers = 0
    /\ failed_wheels = EmptyDict
    /\ whitelisted_wheels = EmptyDict
    /\ used_whitelist = {}
    /\ completed_count = 0
    /\ collecting = ""
    /\ printed_logs = 0
    /\ print_lock = "free"
    /\ unused_whitelist = EmptyDict
    /\ exit_code = -1
    /\ out = <<>>
    /\ pc = [w \in WheelSet |-> "unsubmitted"]
    /\ result = [w \in WheelSet |-> NoResult]
    /\ frame = [w \in WheelSet |-> NoFrame]
    /\ temp_dir = [w \in WheelSet |-> FALSE]
    /\ calls = [w \in WheelSet |-> <<>>]
    /\ proc_result = [w \in WheelSet |-> NoProc]

Init ==
    /\ \E i \in 1..Len(WhitelistPaths) : whitelist_path = WhitelistPaths[i]
    /\ \E i \in 1..Len(PackagesDirs) : packages_dirs = PackagesDirs[i]
    /\ cpu_count \in 1..MaxCpu
    \* the directory with both wheels is run without a whitelist and with
    \* WhitelistB, the other whitelist files against the smaller directories
    /\ packages_dirs = BothWheels =>
          whitelist_path \in {NoWhitelistPath, WhitelistPaths[Len(WhitelistPaths)]}
    /\ MainAtStart
    /\ query = NoQuery

(***************************************************************************)
(* main up to the thread pool                                              *)
(***************************************************************************)
Exit(code) == pc_main' = "exited" /\ exit_code' = code

\* lines 466-476
LoadWhitelist ==
    /\ pc_main = "load_whitelist"
    /\ LET loaded == load_whitelist(whitelist_path)
       IN  /\ out' = out \o Printed(<< <<"Starting wheel installation tests...">> >>)
                           \o Printed(loaded.printed)
           /\ IF loaded.exit
              THEN Exit(1) /\ UNCHANGED whitelist
              ELSE /\ whitelist' = loaded.value
                   /\ pc_main' = "find_packages_dir"
                   /\ UNCHANGED exit_code
    /\ UNCHANGED <<inputs, wheel_files, max_workers, failed_wheels, whitelisted_wheels,
                   used_whitelist, completed_count, collecting, printed_logs,
                   print_lock, unused_whitelist, task_vars, query>>

\* lines 478-507
DiscoverWheels ==
    /\ pc_main = "find_packages_dir"
    /\ LET found == find_packages_dir(packages_dirs)
           files == sorted_wheels(found.dir)
       IN  IF ~found.found
           THEN /\ out' = out \o Printed(<< <<"Error: Cannot find packages directory">> >>)
                /\ Exit(1)
                /\ UNCHANGED <<wheel_files, max_workers>>
           ELSE IF files = <<>>
           THEN /\ out' = out \o Printed(<< <<"Packages directory">>,
                                            <<"No wheel files found">> >>)
                /\ Exit(1)
                /\ UNCHANGED <<wheel_files, max_workers>>
           ELSE /\ wheel_files' = files
                /\ max_workers' = Min(Len(files), cpu_count)
                /\ out' = out \o Printed(<< <<"Packages directory">>,
                                            <<"Found wheel files", Len(files)>>,
                                            <<"Using parallel workers",
                                              Min(Len(files), cpu_count)>> >>)
                /\ pc_main' = "submit"
                /\ UNCHANGED exit_code
    /\ UNCHANGED <<inputs, whitelist, failed_wheels, whitelisted_wheels, used_whitelist,
                   completed_count, collecting, printed_logs, print_lock,
                   unused_whitelist, task_vars, query>>

\* lines 509-513: every wheel's task is put on the executor's queue
SubmitTasks ==
    /\ pc_main = "submit"
    /\ pc' = [w \in WheelSet |-> IF w \in Range(wheel_files) THEN "queued" ELSE pc[w]]
    /\ pc_main' = "as_completed"
    /\ UNCHANGED <<inputs, whitelist, wheel_files, max_workers, failed_wheels,
                   whitelisted_wheels, used_whitelist, completed_count, collecting,
                   printed_logs, print_lock, unused_whitelist, exit_code, out,
                   result, frame, temp_dir, calls, proc_result, query>>

(***************************************************************************)
(* A worker thread running test_wheel_wrapper for wheel w                  *)
(***************************************************************************)
Running == {w \in WheelSet : pc[w] \in {"venv", "install", "classify", "probe"}}
Position(w) == CHOOSE i \in 1..Len(wheel_files) : wheel_files[i] = w
Called(w, what, outcome) == calls' = [calls EXCEPT ![w] = Append(@, <<what, outcome>>)]
\* subprocess.run returned proc, or raised TimeoutExpired, in the task of w
Ran(w, proc) == proc_result' = [proc_result EXCEPT ![w] = proc]
Outcome(proc) ==
    IF proc.timeout THEN "timeout" ELSE IF proc.returncode = 0 THEN "ok" ELSE "nonzero"

\* the task goes on to its next stage
Continue(w, stage, next_pc, next_frame) ==
    /\ pc' = [pc EXCEPT ![w] = next_pc]
    /\ result' = [result EXCEPT ![w] = stage]
    /\ frame' = [frame EXCEPT ![w] = next_frame]
    /\ UNCHANGED temp_dir
\* mutant: the temporary directory is removed only on the way out of a task
\* that passed
Return_leaks_on_failure(w, r) ==
    /\ pc' = [pc EXCEPT ![w] = "done"]
    /\ result' = [result EXCEPT ![w] = r]
    /\ frame' = [frame EXCEPT ![w] = NoFrame]
    /\ temp_dir' = [temp_dir EXCEPT ![w] = ~r.success]
\* the task returns r: the with block removes the temporary directory, the
\* locals are gone, the future is done
Return(w, r) ==
    /\ pc' = [pc EXCEPT ![w] = "done"]
    /\ result' = [result EXCEPT ![w] = r]
    /\ frame' = [frame EXCEPT ![w] = NoFrame]
    /\ temp_dir' = [temp_dir EXCEPT ![w] = FALSE]

\* an idle worker takes the first queued task; lines 231-239
StartTask(w) ==
    /\ pc[w] = "queued"
    /\ \A v \in WheelSet : pc[v] = "queued" => Position(w) <= Position(v)
    /\ Cardinality(Running) < max_workers
    /\ pc' = [pc EXCEPT ![w] = "venv"]
    /\ result' = [result EXCEPT ![w] = add_log(PackageTestResult(w), <<"Testing", w>>)]
    /\ temp_dir' = [temp_dir EXCEPT ![w] = TRUE]
    /\ UNCHANGED <<inputs, main_vars, out, frame, calls, proc_result, query>>

VenvProcs ==
    {Proc(TRUE, 0, <<>>, <<>>), Proc(FALSE, 0, <<>>, <<>>)}
        \cup {Proc(FALSE, 1, VenvStderrs[i], <<>>) : i \in 1..Len(VenvStderrs)}
\* lines 241-273
CreateVenv(w) ==
    /\ pc[w] = "venv"
    /\ \E proc \in VenvProcs, python_exists \in BOOLEAN :
          LET stage == after_venv(result[w], proc, python_exists)
          IN  /\ python_exists \/ Outcome(proc) = "ok"
              /\ Ran(w, proc)
              /\ Called(w, "venv", IF Outcome(proc) = "ok" /\ ~python_exists
                                   THEN "no python" ELSE Outcome(proc))
              /\ IF stage.returned THEN Return(w, stage.result)
                 ELSE Continue(w, stage.result, "install", frame[w])
    /\ UNCHANGED <<inputs, main_vars, out, query>>

InstallProcs ==
    {Proc(TRUE, 0, <<>>, <<>>), Proc(FALSE, 0, <<>>, <<>>)}
        \cup {Proc(FALSE, 1, InstallOutputs[i][1], InstallOutputs[i][2]) :
                 i \in 1..Len(InstallOutputs)}
\* lines 275-309
InstallWheel(w) ==
    /\ pc[w] = "install"
    /\ \E proc \in InstallProcs :
          LET stage == after_install(result[w], proc)
          IN  /\ Called(w, "install", Outcome(proc))
              /\ Ran(w, proc)
              /\ IF stage.returned THEN Return(w, stage.result)
                 ELSE Continue(w, stage.result, "classify", frame[w])
    /\ UNCHANGED <<inputs, main_vars, out, query>>

\* lines 311-320, with extract_native_modules: an archive that cannot be
\* read is reported by print(), straight to stdout and outside _print_lock
ClassifyModules(w) ==
    /\ pc[w] = "classify"
    /\ \E readable \in BOOLEAN :
          LET modules_to_test == IF readable THEN extract_native_modules(Archive(w))[1]
                                 ELSE <<>>
              stage == after_classify(result[w], modules_to_test)
          IN  /\ out' = IF readable THEN out
                        ELSE Append(out, OutLine(w, "", <<"Warning: Cannot read wheel file", w>>))
              /\ Called(w, "classify", IF readable THEN "ok" ELSE "unreadable")
              /\ IF stage.returned THEN Return(w, stage.result)
                 ELSE Continue(w, stage.result, "probe", Frame(modules_to_test))
    /\ UNCHANGED <<inputs, main_vars, proc_result, query>>

ProbeProcs ==
    {Proc(TRUE, 0, <<>>, <<>>), Proc(FALSE, 0, <<>>, <<>>)}
        \cup {Proc(FALSE, 1, ProbeStderrs[i], <<>>) : i \in 1..Len(ProbeStderrs)}
\* mutant: lines 387-389 add the task's keys to main's used_whitelist
ProbeImport_updates_shared(w) ==
    /\ pc[w] = "probe"
    /\ \E proc \in ProbeProcs :
          LET module == frame[w].modules_to_test[frame[w].next]
              task == probe_module(Task(result[w], frame[w]), w, module, proc, whitelist)
          IN  /\ Called(w, "probe", Outcome(proc))
              /\ Ran(w, proc)
              /\ IF frame[w].next = Len(frame[w].modules_to_test)
                 THEN /\ Return(w, finalize(task.result, task.frame))
                      /\ used_whitelist' = used_whitelist \cup task.frame.used_whitelist_local
                 ELSE /\ Continue(w, task.result, "probe",
                                  [task.frame EXCEPT !.next = @ + 1])
                      /\ UNCHANGED used_whitelist
    /\ UNCHANGED <<inputs, pc_main, whitelist, wheel_files, max_workers, failed_wheels,
                   whitelisted_wheels, completed_count, collecting, printed_logs,
                   print_lock, unused_whitelist, exit_code, out, query>>

\* lines 326-401: one import probe; after the last one the result is
\* finished and returned
ProbeImport(w) ==
    /\ pc[w] = "probe"
    /\ \E proc \in ProbeProcs :
          LET module == frame[w].modules_to_test[frame[w].next]
              task == probe_module(Task(result[w], frame[w]), w, module, proc, whitelist)
          IN  /\ Called(w, "probe", Outcome(proc))
              /\ Ran(w, proc)
              /\ IF frame[w].next = Len(frame[w].modules_to_test)
                 THEN Return(w, finalize(task.result, task.frame))
                 ELSE Continue(w, task.result, "probe",
                               [task.frame EXCEPT !.next = @ + 1])
    /\ UNCHANGED <<inputs, main_vars, out, query>>

\* lines 407-415: the external call of the task's stage raises (the
\* interpreter cannot be started, the archive holds an entry zipfile cannot
\* decompress); the exception leaves the with block and the wrapper
\* catches it
TaskRaises(w) ==
    /\ pc[w] \in {"venv", "install", "classify", "probe"}
    /\ Called(w, pc[w], "raise")
    /\ Return(w, exception_result(w, ExceptionText))
    /\ UNCHANGED <<inputs, main_vars, out, proc_result, query>>


(***************************************************************************)
(* main's as_completed loop and summary                                    *)
(***************************************************************************)
\* lines 515-522: as_completed yields a finished future; main takes its
\* result and print_logs takes _print_lock
CollectResult(w) ==
    /\ pc_main = "as_completed"
    /\ collecting = ""
    /\ pc[w] = "done"
    /\ print_lock = "free"
    /\ pc' = [pc EXCEPT ![w] = "collected"]
    /\ completed_count' = completed_count + 1
    /\ collecting' = w
    /\ printed_logs' = 0
    /\ print_lock' = MainThread
    /\ UNCHANGED <<inputs, pc_main, whitelist, wheel_files, max_workers, failed_wheels,
                   whitelisted_wheels, used_whitelist, unused_whitelist, exit_code,
                   out, result, frame, temp_dir, calls, proc_result, query>>

\* lines 69-70: print_logs prints the next line of the buffer
PrintLogLine ==
    /\ collecting # ""
    /\ print_lock = MainThread
    /\ printed_logs < Len(result[collecting].logs)
    /\ out' = Append(out, OutLine(MainThread, collecting,
                                  result[collecting].logs[printed_logs + 1]))
    /\ printed_logs' = printed_logs + 1
    /\ UNCHANGED <<inputs, pc_main, whitelist, wheel_files, max_workers, failed_wheels,
                   whitelisted_wheels, used_whitelist, completed_count, collecting,
                   print_lock, unused_whitelist, exit_code, task_vars, query>>

\* mutant: _print_lock is still held after print_logs
MergeResult_keeps_lock ==
    /\ collecting # ""
    /\ printed_logs = Len(result[collecting].logs)
    /\ LET agg == merge_result(Aggregate(failed_wheels, whitelisted_wheels, used_whitelist),
                               result[collecting])
       IN  /\ failed_wheels' = agg.failed_wheels
           /\ whitelisted_wheels' = agg.whitelisted_wheels
           /\ used_whitelist' = agg.used_whitelist
    /\ out' = Append(out, OutLine(MainThread, "",
                                  <<"Progress", completed_count, Len(wheel_files)>>))
    /\ collecting' = ""
    /\ UNCHANGED <<inputs, pc_main, whitelist, wheel_files, max_workers,
                   completed_count, printed_logs, print_lock, unused_whitelist,
                   exit_code, task_vars, query>>

\* lines 524-536: print_logs releases the lock, the result is merged and
\* the progress line printed
MergeResult ==
    /\ collecting # ""
    /\ printed_logs = Len(result[collecting].logs)
    /\ LET agg == merge_result(Aggregate(failed_wheels, whitelisted_wheels, used_whitelist),
                               result[collecting])
       IN  /\ failed_wheels' = agg.failed_wheels
           /\ whitelisted_wheels' = agg.whitelisted_wheels
           /\ used_whitelist' = agg.used_whitelist
    /\ out' = Append(out, OutLine(MainThread, "",
                                  <<"Progress", completed_count, Len(wheel_files)>>))
    /\ print_lock' = "free"
    /\ collecting' = ""
    /\ UNCHANGED <<inputs, pc_main, whitelist, wheel_files, max_workers,
                   completed_count, printed_logs, unused_whitelist, exit_code,
                   task_vars, query>>

\* lines 542-592: every future has been yielded; the summary is printed
\* and the process exits
Summarize ==
    /\ pc_main = "as_completed"
    /\ collecting = ""
    /\ \A i \in 1..Len(wheel_files) : pc[wheel_files[i]] = "collected"
    /\ unused_whitelist' = find_unused_whitelist_entries(whitelist, used_whitelist)
    /\ out' = out \o Printed(<< <<"Test Summary", Len(wheel_files),
                                  Len(wheel_files) - Len(failed_wheels),
                                  Len(failed_wheels)>> >>)
    /\ Exit(exit_status(failed_wheels))
    /\ UNCHANGED <<inputs, whitelist, wheel_files, max_workers, failed_wheels,
                   whitelisted_wheels, used_whitelist, completed_count, collecting,
                   printed_logs, print_lock, task_vars, query>>

Next ==
    \/ LoadWhitelist
    \/ DiscoverWheels
    \/ SubmitTasks
    \/ \E w \in WheelSet : StartTask(w)
    \/ \E w \in WheelSet : CreateVenv(w)
    \/ \E w \in WheelSet : InstallWheel(w)
    \/ \E w \in WheelSet : ClassifyModules(w)
    \/ \E w \in WheelSet : ProbeImport(w)
    \/ \E w \in WheelSet : TaskRaises(w)
    \/ \E w \in WheelSet : CollectResult(w)
    \/ PrintLogLine
    \/ MergeResult
    \/ Summarize

Spec == Init /\ [][Next]_vars


(***************************************************************************)
(* Scheduling: the main thread runs on whenever it can take a step, a      *)
(* queued task is started when a worker of the pool is idle, and every     *)
(* external call of a running task returns, times out or raises.           *)
(***************************************************************************)
MainStep ==
    \/ LoadWhitelist
    \/ DiscoverWheels
    \/ SubmitTasks
    \/ \E w \in WheelSet : CollectResult(w)
    \/ PrintLogLine
    \/ MergeResult
    \/ Summarize
WorkerStep(w) ==
    \/ StartTask(w)
    \/ CreateVenv(w)
    \/ InstallWheel(w)
    \/ ClassifyModules(w)
    \/ ProbeImport(w)
    \/ TaskRaises(w)
Fairness == WF_vars(MainStep) /\ \A w \in WheelSet : WF_vars(WorkerStep(w))

SpecLive == Spec /\ Fairness


(***************************************************************************)
(* The whitelist matcher on its own: is_whitelisted is called on every     *)
(* query of a bounded input space.                                         *)
(***************************************************************************)
MatcherAlphabet == {"a", "A", "b"}
TextsUpTo(n) == UNION {[1..k -> MatcherAlphabet] : k \in 0..n}
MatcherWheels == {"", "a.whl", "b.whl"}
MatcherModules == {<<>>, <<"m">>, <<"n">>}
\* the patterns a whitelist can hold for ("a.whl", "m"): texts, and values
\* that are not strings
MatcherPatterns == {JStr(p) : p \in TextsUpTo(2)} \cup {JInt, JNone}
MatcherWhitelists ==
    {JDict(<< <<"a.whl", JDict(<< <<<<"m">>, p>> >>)>> >>) : p \in MatcherPatterns}
        \cup {JDict(EmptyDict), JList,
              JDict(<< <<"a.whl", JDict(EmptyDict)>> >>),
              JDict(<< <<"b.whl", JDict(<< <<<<"n">>, JStr(<<"a">>)>> >>)>> >>)}

InitMatcher ==
    /\ whitelist_path = NoWhitelistPath
    /\ packages_dirs = PackagesDirs[1]
    /\ cpu_count = 1
    /\ MainAtStart
    /\ \E wheel_name \in MatcherWheels, module \in MatcherModules,
          error \in TextsUpTo(MaxErrLen), wl \in MatcherWhitelists :
          query = [wheel_name |-> wheel_name, module |-> module, error |-> error,
                   whitelist |-> wl, state |-> "call", ret |-> FALSE]

CallIsWhitelisted ==
    /\ query.state = "call"
    /\ query' = [query EXCEPT
                    !.state = "returned",
                    !.ret = is_whitelisted(query.wheel_name, query.module,
                                           query.error, query.whitelist)]
    /\ UNCHANGED <<inputs, main_vars, task_vars, out>>

NextMatcher == CallIsWhitelisted

SpecMatcher == InitMatcher /\ [][NextMatcher]_vars


(***************************************************************************)
(* The module classifier on its own: extract_native_modules is called on   *)
(* every archive of a bounded space of listings, and the verifier's step   *)
(* after it (lines 311-320) is applied to what it returns.                 *)
(***************************************************************************)
\* p-1.dist-info/top_level.txt
TopLevelEntry == <<"p","-","1",".","d","i","s","t","-","i","n","f","o","/",
    "t","o","p","_","l","e","v","e","l",".","t","x","t">>
\* the entry names an archive's listing is made of
ClassifierEntries ==
    { <<"p","k","g","/","_","_","i","n","i","t","_","_",".","p","y">>,
      <<"p","k","g","/","_","n","a","t","i","v","e",".","c","p","y","t","h","o","n","-","3","1","1","-","x","8","6","_","6","4","-","l","i","n","u","x","-","g","n","u",".","s","o">>,
      <<"p","k","g","/","_","n","a","t","i","v","e",".","a","b","i","3",".","s","o">>,
      <<"m","o","d",".","p","y","d">>,
      <<"p","k","g","/","l","i","b","f","o","o",".","s","o",".","1",".","2",".","3">>,
      <<"p","k","g","/","l","i","b","b","a","r",".","s","o",".","1",".","s","o">>,
      <<"p","k","g",".","l","i","b","s","/","l","i","b","z",".","s","o">>,
      <<"p","k","g","/","m","y",".","s","o","l","v","e","r",".","p","y","d">>,
      <<"p","y","p","y","l","o","n","/","_","p","y","l","o","n",".","s","o">>,
      TopLevelEntry }
\* what top_level.txt can hold: one name, names out of order and repeated,
\* bytes that are not UTF-8
TopLevelContents == {Decoded(<<"p","k","g","\n">>), Decoded(<<"z","e","t","a","\n","a","l","p","h","a","\n","z","e","t","a","\n">>), Undecodable}
ListingsUpTo(n) == UNION {[1..k -> ClassifierEntries] : k \in 0..n}

InitClassifier ==
    /\ whitelist_path = NoWhitelistPath
    /\ packages_dirs = PackagesDirs[1]
    /\ cpu_count = 1
    /\ MainAtStart
    /\ \E namelist \in ListingsUpTo(MaxEntries), content \in TopLevelContents :
          query = [archive |-> [namelist |-> namelist,
                                files |-> << <<TopLevelEntry, content>> >>],
                   state |-> "call", modules |-> <<>>, top_level_packages |-> <<>>,
                   stage |-> Stage(FALSE, NoResult)]

\* lines 311-320 on a readable archive
CallExtractNativeModules ==
    /\ query.state = "call"
    /\ LET extracted == extract_native_modules(query.archive)
       IN  query' = [query EXCEPT
                        !.state = "returned",
                        !.modules = extracted[1],
                        !.top_level_packages = extracted[2],
                        !.stage = after_classify(PackageTestResult("pkg.whl"),
                                                 extracted[1])]
    /\ UNCHANGED <<inputs, main_vars, task_vars, out>>

NextClassifier == CallExtractNativeModules

SpecClassifier == InitClassifier /\ [][NextClassifier]_vars


(***************************************************************************)
(* The whitelist snippet and a second run: the wheels are verified with    *)
(* given outcomes of their external calls, the summary prints the snippet  *)
(* generate_whitelist_snippet makes of the failure map, the snippet is put *)
(* into the whitelist file, and the wheels are verified again with the     *)
(* same outcomes.                                                          *)
(***************************************************************************)
\* error[:100]
SnippetMaxLen == 100

\* lines 443-450: the pattern written for one error text
SnippetPattern(error) ==
    LET k == Find(<<":"," ">>, error)
        head == SubSeq(error, 1, k - 1)
        unprefixed ==
            IF k # 0 /\ head # <<>>
                  /\ (EndsWith(head, <<"E","r","r","o","r">>) \/ EndsWith(head, <<"E","x","c","e","p","t","i","o","n">>))
            THEN SubSeq(error, k + 2, Len(error))
            ELSE error
        truncated_error ==
            IF Len(unprefixed) > SnippetMaxLen THEN SubSeq(unprefixed, 1, SnippetMaxLen)
            ELSE unprefixed
    IN  strip(truncated_error)
\* lines 441-450: snippet[wheel_name], filled error by error
RECURSIVE SnippetModules(_, _)
SnippetModules(entry, errors) ==
    IF errors = <<>> THEN entry
    ELSE SnippetModules(DictSet(entry, Head(errors)[1], JStr(SnippetPattern(Head(errors)[2]))),
                        Tail(errors))
\* the JSON text json.dumps writes, as the value json.load reads from it
generate_whitelist_snippet(failed) ==
    JDict([i \in 1..Len(failed) |->
              <<failed[i][1], JDict(SnippetModules(EmptyDict, failed[i][2]))>>])

\* what the external calls of one task give: python -m venv and whether the
\* venv's interpreter is there, pip install, whether zipfile reads the
\* archive, one probe per module, and whether the task raises instead
Outcomes(venv, python_exists, install, readable, probes, raises) ==
    [venv |-> venv, python_exists |-> python_exists, install |-> install,
     readable |-> readable, probes |-> probes, raises |-> raises]

\* lines 326-383 for the modules from index next on
RECURSIVE run_probes(_, _, _, _)
run_probes(task, wheel_name, probes, wl) ==
    IF task.frame.next > Len(task.frame.modules_to_test) THEN task
    ELSE LET module == task.frame.modules_to_test[task.frame.next]
             probed == probe_module(task, wheel_name, module,
                                    probes[task.frame.next], wl)
         IN  run_probes(Task(probed.result, [probed.frame EXCEPT !.next = @ + 1]),
                        wheel_name, probes, wl)

\* lines 231-401 with the calls' outcomes given
test_wheel_with_logging(wheel_name, outcomes, wl) ==
    LET started == add_log(PackageTestResult(wheel_name), <<"Testing", wheel_name>>)
        venv == after_venv(started, outcomes.venv, outcomes.python_exists)
        install == after_install(venv.result, outcomes.install)
        modules_to_test ==
            IF outcomes.readable THEN extract_native_modules(Archive(wheel_name))[1]
            ELSE <<>>
        classify == after_classify(install.result, modules_to_test)
        task == run_probes(Task(classify.result, Frame(modules_to_test)), wheel_name,
                           outcomes.probes, wl)
    IN  IF venv.returned THEN venv.result
        ELSE IF install.returned THEN install.result
        ELSE IF classify.returned THEN classify.result
        ELSE finalize(task.result, task.frame)
\* lines 404-415
test_wheel_wrapper(wheel_name, outcomes, wl) ==
    IF outcomes.raises THEN exception_result(wheel_name, ExceptionText)
    ELSE test_wheel_with_logging(wheel_name, outcomes, wl)

\* lines 496-540: the aggregate after every wheel's result is merged
RECURSIVE verify_wheels(_, _, _, _)
verify_wheels(agg, files, runs, wl) ==
    IF files = <<>> THEN agg
    ELSE verify_wheels(merge_result(agg, test_wheel_wrapper(Head(files), runs[Head(files)],
                                                            wl)),
                       Tail(files), runs, wl)
\* one run of main on both wheels: the aggregate and the exit code
run_main(runs, wl) ==
    LET agg == verify_wheels(Aggregate(EmptyDict, EmptyDict, {}), Wheels, runs, wl)
    IN  [failed_wheels |-> agg.failed_wheels,
         whitelisted_wheels |-> agg.whitelisted_wheels,
         exit_code |-> exit_status(agg.failed_wheels)]

\* a probe whose last stderr line is longer than the snippet keeps
\* Traceback:\nOSError: cannot load library /opt/runenv/lib/python3.11/site-packages/b/native.cpython-311-x86_64-linux-gnu.so: wrong ELF class\n
StderrLong == <<"T","r","a","c","e","b","a","c","k",":","\n","O","S","E",
    "r","r","o","r",":"," ","c","a","n","n","o","t"," ","l","o","a","d"," ",
    "l","i","b","r","a","r","y"," ","/","o","p","t","/","r","u","n","e","n",
    "v","/","l","i","b","/","p","y","t","h","o","n","3",".","1","1","/","s",
    "i","t","e","-","p","a","c","k","a","g","e","s","/","b","/","n","a","t",
    "i","v","e",".","c","p","y","t","h","o","n","-","3","1","1","-","x","8",
    "6","_","6","4","-","l","i","n","u","x","-","g","n","u",".","s","o",":",
    " ","w","r","o","n","g"," ","E","L","F"," ","c","l","a","s","s","\n">>
SnippetProbeProcs == ProbeProcs \cup {Proc(FALSE, 1, StderrLong, <<>>)}
\* the outcomes a task can meet, one for each way it ends
TaskOutcomes(w) ==
    LET ok == Proc(FALSE, 0, <<>>, <<>>) IN
        {Outcomes(proc, FALSE, ok, TRUE, <<>>, FALSE) : proc \in VenvProcs}
        \cup {Outcomes(ok, TRUE, ok, TRUE, <<>>, TRUE)}
        \cup {Outcomes(ok, TRUE, proc, TRUE, <<>>, FALSE) : proc \in InstallProcs \ {ok}}
        \cup {Outcomes(ok, TRUE, ok, FALSE, <<>>, FALSE)}
        \cup {Outcomes(ok, TRUE, ok, TRUE, probes, FALSE) :
                 probes \in [1..Len(extract_native_modules(Archive(w))[1]) -> SnippetProbeProcs]}

\* the snippet put into the whitelist file: its entries are added to those
\* of the wheel, in place of an entry of the same module
RECURSIVE AddModules(_, _)
AddModules(modules, added) ==
    IF added = <<>> THEN modules
    ELSE AddModules(DictSet(modules, Head(added)[1], Head(added)[2]), Tail(added))
RECURSIVE AddSnippet(_, _)
AddSnippet(old, snippet) ==
    IF snippet = <<>> THEN old
    ELSE AddSnippet(DictSet(old, Head(snippet)[1],
                            JDict(AddModules(DictGet(old, Head(snippet)[1],
                                                     JDict(EmptyDict)).v,
                                             Head(snippet)[2].v))),
                    Tail(snippet))

InitSnippet ==
    /\ whitelist_path = NoWhitelistPath
    /\ packages_dirs = BothWheels
    /\ cpu_count = 1
    /\ MainAtStart
    /\ \E runs \in [WheelSet -> UNION {TaskOutcomes(w) : w \in WheelSet}],
          given \in {JDict(EmptyDict), WhitelistB} :
          /\ \A w \in WheelSet : runs[w] \in TaskOutcomes(w)
          /\ LET not_run == [failed_wheels |-> EmptyDict,
                             whitelisted_wheels |-> EmptyDict, exit_code |-> -1]
             IN  query = [runs |-> runs, whitelist |-> given, state |-> "call",
                          first |-> not_run, snippet |-> JNone, second |-> not_run]

\* main runs to its summary
FirstRun ==
    /\ query.state = "call"
    /\ query' = [query EXCEPT !.state = "first",
                              !.first = run_main(query.runs, query.whitelist)]
    /\ UNCHANGED <<inputs, main_vars, task_vars, out>>
\* lines 565-580: with failures, the summary prints the snippet
PrintSnippet ==
    /\ query.state = "first"
    /\ query.first.failed_wheels # EmptyDict
    /\ query' = [query EXCEPT
                    !.state = "snippet",
                    !.snippet = generate_whitelist_snippet(query.first.failed_wheels)]
    /\ UNCHANGED <<inputs, main_vars, task_vars, out>>
\* the snippet is added to the whitelist file and main is run again, its
\* external calls giving what they gave
SecondRun ==
    /\ query.state = "snippet"
    /\ query' = [query EXCEPT
                    !.state = "second",
                    !.second = run_main(query.runs,
                                        load_whitelist(
                                            WhitelistPath(TRUE, TRUE, TRUE, TRUE,
                                                JDict(AddSnippet(query.whitelist.v,
                                                                 query.snippet.v)))).value)]
    /\ UNCHANGED <<inputs, main_vars, task_vars, out>>

NextSnippet == FirstRun \/ PrintSnippet \/ SecondRun

SpecSnippet == InitSnippet /\ [][NextSnippet]_vars


(***************************************************************************)
(* Properties                                                              *)
(***************************************************************************)
Exited == pc_main = "exited"

\* a whitelist of the two-level shape: wheel name -> module name -> string
WellFormedWhitelist(json) ==
    /\ json.t = "dict"
    /\ \A i \in 1..Len(json.v) :
          /\ json.v[i][2].t = "dict"
          /\ \A j \in 1..Len(json.v[i][2].v) : json.v[i][2].v[j][2].t = "str"
WhitelistFilePresent == whitelist_path.given /\ whitelist_path.exists
\* the file is there and can be read, and is not a whitelist
WhitelistMalformed ==
    /\ WhitelistFilePresent
    /\ whitelist_path.readable
    /\ ~(whitelist_path.parses /\ WellFormedWhitelist(whitelist_path.json))
WhitelistLoadFails ==
    WhitelistMalformed \/ (WhitelistFilePresent /\ ~whitelist_path.readable)
DirMissing == ~packages_dirs[1].exists /\ ~packages_dirs[2].exists
NoWheelsFound ==
    /\ ~DirMissing
    /\ (IF packages_dirs[1].exists THEN packages_dirs[1] ELSE packages_dirs[2]).files
          \cap WheelSet = {}
SetupFails == WhitelistLoadFails \/ DirMissing \/ NoWheelsFound
\* main has left the thread pool and exited after the summary
RunCompleted == Exited /\ ~SetupFails

Finalized(w) == result[w].finish_calls > 0
TaskOver(w) == pc[w] \in {"done", "collected"}
\* the block of wheel v is printed before the block of wheel w
PrintedBefore(v, w) ==
    \E i, j \in 1..Len(out) : i < j /\ out[i].pkg = v /\ out[j].pkg = w

\* C1: when setup succeeds the exit code is 0 iff no package ended with a
\* failure that is not whitelisted (its failed list is empty), and 1
\* otherwise; a setup failure gives exit code 1.
C1_ExitCode ==
    Exited =>
        exit_code = IF SetupFails THEN 1
                    ELSE IF \A w \in Range(wheel_files) : result[w].errors = <<>>
                         THEN 0 ELSE 1
\* both wheels were verified, one with whitelisted failures only, and the
\* run exited 0
C1_Witness ==
    /\ Exited /\ exit_code = 0 /\ Len(wheel_files) = 2
    /\ \E w \in WheelSet : result[w].whitelisted # <<>>

\* the aggregate the results give when they are merged in submission order
RECURSIVE MergeInOrder(_, _)
MergeInOrder(agg, files) ==
    IF files = <<>> THEN agg
    ELSE MergeInOrder(merge_result(agg, result[Head(files)]), Tail(files))

\* C2: of N packages verified concurrently, M ending in failure, the final
\* failure map has exactly M entries, one per failing package, whatever the
\* order of completion; the exit code is 1 iff M > 0; and the aggregate
\* (failure map, whitelisted map, used keys, unused entries) is the one the
\* submission order gives.
C2_OrderIndependentReport ==
    RunCompleted =>
        LET failing == {w \in Range(wheel_files) : ~result[w].success}
            canonical == MergeInOrder(Aggregate(EmptyDict, EmptyDict, {}), wheel_files)
        IN  /\ Len(failed_wheels) = Cardinality(failing)
            /\ Range(Keys(failed_wheels)) = failing
            /\ \A w \in failing : DictGet(failed_wheels, w, <<>>) = result[w].errors
            /\ (exit_code = 1) <=> (Cardinality(failing) > 0)
            /\ DictEq(failed_wheels, canonical.failed_wheels)
            /\ DictEq(whitelisted_wheels, canonical.whitelisted_wheels)
            /\ used_whitelist = canonical.used_whitelist
            /\ unused_whitelist
                  = find_unused_whitelist_entries(whitelist, canonical.used_whitelist)
\* two packages, the second completed and was merged first, one of them
\* failed
C2_Witness ==
    /\ RunCompleted /\ Len(wheel_files) = 2
    /\ PrintedBefore("b.whl", "a.whl")
    /\ Len(failed_wheels) = 1

\* C3: for every finalized outcome, success is true iff the failed list is
\* empty.
C3_SuccessIffNoFailures ==
    \A w \in WheelSet :
        Finalized(w) => (result[w].success <=> result[w].errors = <<>>)
\* a package whose import failures are all whitelisted: success, a
\* whitelisted list that is not empty, an empty failed list
C3_Witness ==
    \E w \in WheelSet :
        /\ Finalized(w) /\ result[w].success
        /\ result[w].whitelisted # <<>> /\ result[w].errors = <<>>

Raised(w) == calls[w] # <<>> /\ calls[w][Len(calls[w])][2] = "raise"
\* C4: an exception in a package's task is turned into a failure outcome
\* with the single error tagged "exception", and does not abort the run:
\* when main exits every package has been verified, collected and merged.
C4_ExceptionContained ==
    /\ \A w \in WheelSet :
          Raised(w) =>
              /\ TaskOver(w) /\ result[w].finish_calls = 1
              /\ ~result[w].success
              /\ Len(result[w].errors) = 1 /\ result[w].errors[1][1] = TagException
    /\ (Exited /\ \E w \in WheelSet : Raised(w)) =>
          /\ completed_count = Len(wheel_files)
          /\ \A v \in Range(wheel_files) :
                /\ pc[v] = "collected" /\ calls[v] # <<>> /\ result[v].finish_calls = 1
                /\ ~result[v].success =>
                      DictGet(failed_wheels, v, <<>>) = result[v].errors
\* the task of a.whl raised, b.whl was verified all the same and passed
C4_Witness ==
    /\ Exited /\ Raised("a.whl")
    /\ ~Raised("b.whl") /\ result["b.whl"].success /\ Len(calls["b.whl"]) >= 4

\* C5: only the main thread writes to stdout, and the lines of a package's
\* log form one contiguous block there.
C5_LogBlocksContiguous ==
    /\ \A i \in 1..Len(out) : out[i].by = MainThread
    /\ \A i, j \in 1..Len(out) :
          (i < j /\ out[i].pkg # "" /\ out[i].pkg = out[j].pkg) =>
              \A k \in i..j : out[k].pkg = out[i].pkg
\* the second half alone: nothing stands inside a package's block
C5_NothingInsideABlock ==
    \A i, j \in 1..Len(out) :
        (i < j /\ out[i].pkg # "" /\ out[i].pkg = out[j].pkg) =>
            \A k \in i..j : out[k].pkg = out[i].pkg

\* how often (wheel_name, module) is listed in unused_whitelist
ReportedUnused(wheel_name, module) ==
    Cardinality(UNION {{<<i, j>> : j \in {k \in 1..Len(unused_whitelist[i][2]) :
                                             /\ unused_whitelist[i][1] = wheel_name
                                             /\ unused_whitelist[i][2][k] = module}} :
                       i \in 1..Len(unused_whitelist)})
C7_SetupErrorIsFatal ==
    SetupFails =>
        /\ pc_main \in {"load_whitelist", "find_packages_dir", "exited"}
        /\ Exited => exit_code = 1
        /\ \A w \in WheelSet :
              /\ pc[w] = "unsubmitted" /\ calls[w] = <<>>
              /\ ~temp_dir[w] /\ result[w] = NoResult
\* the whitelist loaded, the directory is there and holds no wheel
C7_Witness == Exited /\ NoWheelsFound /\ whitelist # JNone

\* C8: load_whitelist returns the empty whitelist when no path is given or
\* the file is absent; a file that is not JSON, not an object, or has an
\* entry that is not a map from module names to strings ends the run with
\* exit code 1 and is never main's whitelist, nor is the empty one in its
\* place; a well-formed file is returned as it is.
C8_LoadWhitelist ==
    pc_main # "load_whitelist" =>
        /\ ~WhitelistFilePresent => whitelist = JDict(EmptyDict)
        /\ WhitelistMalformed =>
              /\ Exited /\ exit_code = 1
              /\ whitelist = JNone /\ wheel_files = <<>>
        /\ (WhitelistFilePresent /\ ~WhitelistLoadFails) => whitelist = whitelist_path.json
\* a path to no file: the run went on to the thread pool with the empty
\* whitelist
C8_Witness ==
    /\ whitelist_path.given /\ ~whitelist_path.exists
    /\ pc_main = "as_completed" /\ whitelist = JDict(EmptyDict)

\* the pattern whitelist[wheel_name][module], JNone when there is none
PatternOf(q) ==
    IF q.whitelist.t = "dict" /\ HasKey(q.whitelist.v, q.wheel_name)
    THEN DictGet(DictGet(q.whitelist.v, q.wheel_name, JNone).v, q.module, JNone)
    ELSE JNone
QueryNotEmpty(q) == q.wheel_name # "" /\ q.module # <<>> /\ q.error # <<>>
\* C9 as stated: is_whitelisted is true exactly when the pattern exists, is
\* a string and, case-folded, is a substring of the case-folded error text,
\* no query value being empty.
C9_MatcherAsClaimed ==
    query.state = "returned" =>
        (query.ret <=> /\ QueryNotEmpty(query)
                       /\ PatternOf(query).t = "str"
                       /\ Contains(lower(PatternOf(query).v), lower(query.error)))
\* C9: is_whitelisted is true exactly when the pattern exists, is a string
\* that is not empty and, case-folded, is a substring of the case-folded
\* error text, no query value being empty.
C9_MatcherAmended ==
    query.state = "returned" =>
        (query.ret <=> /\ QueryNotEmpty(query)
                       /\ PatternOf(query).t = "str"
                       /\ PatternOf(query).v # <<>>
                       /\ Contains(lower(PatternOf(query).v), lower(query.error)))
\* a match that needs the case folding
C9_Witness ==
    /\ query.state = "returned" /\ query.ret
    /\ ~Contains(PatternOf(query).v, query.error)

HasCall(w, what, outcomes) ==
    \E i \in 1..Len(calls[w]) : calls[w][i][1] = what /\ calls[w][i][2] \in outcomes
VenvFailed(w) == HasCall(w, "venv", {"timeout", "nonzero", "no python"})
InstallFailed(w) == HasCall(w, "install", {"timeout", "nonzero"})
SingleError(w, tag) ==
    /\ TaskOver(w) /\ result[w].finish_calls = 1 /\ ~result[w].success
    /\ Len(result[w].errors) = 1 /\ result[w].errors[1][1] = tag
    /\ result[w].whitelisted = <<>>
\* C10: a failed provisioning gives a failure with the one error tagged
\* "venv" and is the task's only external call; a failed install gives a
\* failure with the one error tagged "install" and is the task's last
\* external call, after the provisioning.
C10_FailFast ==
    \A w \in WheelSet :
        /\ VenvFailed(w) => SingleError(w, TagVenv) /\ Len(calls[w]) = 1
        /\ InstallFailed(w) =>
              /\ SingleError(w, TagInstall)
              /\ Len(calls[w]) = 2 /\ calls[w][1] = <<"venv", "ok">>
\* provisioning failed for a.whl, install failed for b.whl
C10_Witness ==
    /\ VenvFailed("a.whl") /\ InstallFailed("b.whl")
    /\ TaskOver("a.whl") /\ TaskOver("b.whl")


(***************************************************************************)
(* Properties of the module classifier (SpecClassifier)                    *)
(***************************************************************************)
Classified == query.state = "returned"
Listing == query.archive.namelist
EndsWithExtension(name) == EndsWith(name, <<".","s","o">>) \/ EndsWith(name, <<".","p","y","d">>)
NoCompiledEntries == \A i \in 1..Len(Listing) : ~EndsWithExtension(Listing[i])

\* C11: an archive with no compiled-extension entry is classified to the
\* empty module list, and the verifier then returns success at once, before
\* the probe loop, with empty failed and whitelisted lists.
C11_PureArchivePasses ==
    (Classified /\ NoCompiledEntries) =>
        /\ query.modules = <<>>
        /\ query.stage.returned
        /\ query.stage.result.finish_calls = 1
        /\ query.stage.result.success
        /\ query.stage.result.errors = <<>>
        /\ query.stage.result.whitelisted = <<>>
\* an archive of Python sources, a versioned shared library and metadata
C11_Witness ==
    /\ Classified /\ NoCompiledEntries /\ Len(Listing) = 3
    /\ \E i \in 1..Len(Listing) : Listing[i] = <<"p","k","g","/","l","i","b","f","o","o",".","s","o",".","1",".","2",".","3">>
    /\ query.stage.returned /\ query.stage.result.success

\* the directories whose entries are no modules
InMetadataDir(name) ==
    \/ Contains(<<".","d","i","s","t","-","i","n","f","o","/">>, name)
    \/ Contains(<<".","d","a","t","a","/">>, name)
    \/ Contains(<<".","l","i","b","s","/">>, name)
\* a base name that starts with lib and carries a .so. version suffix
NamedLikeBundledLib(name) ==
    StartsWith(Basename(name), <<"l","i","b">>) /\ Contains(<<".","s","o",".">>, Basename(name))
\* the entry path without the extension suffix it ends with
SuffixStripped(name) ==
    IF EndsWith(name, <<".","s","o">>) THEN SubSeq(name, 1, Len(name) - 3)
    ELSE IF EndsWith(name, <<".","p","y","d">>) THEN SubSeq(name, 1, Len(name) - 4)
    ELSE name
StartsWithAbiTag(part) ==
    \/ StartsWith(part, <<"c","p","y","t","h","o","n","-">>) \/ StartsWith(part, <<"a","b","i","3">>)
    \/ StartsWith(part, <<"p","y","p","y">>) \/ StartsWith(part, <<"c","p","3">>)
RECURSIVE BeforeAbiTag(_)
BeforeAbiTag(parts) ==
    IF parts = <<>> \/ StartsWithAbiTag(Head(parts)) THEN <<>>
    ELSE <<Head(parts)>> \o BeforeAbiTag(Tail(parts))
\* the module name C12 gives for an entry
DerivedName(name) ==
    rstripChar(replace(join(<<".">>, BeforeAbiTag(split(SuffixStripped(name), <<".">>))),
                       "/", "."), ".")
ModuleEntries ==
    {i \in 1..Len(Listing) :
        /\ ~InMetadataDir(Listing[i]) /\ EndsWithExtension(Listing[i])
        /\ ~NamedLikeBundledLib(Listing[i])}
\* C12: the module names returned are those of the entries outside the
\* metadata, data and bundled-library directories that end with .so or
\* .pyd: the path with that suffix stripped, cut at the first ABI tag,
\* separators replaced by dots, trailing dots removed.
C12_DerivedModuleNames ==
    (Classified /\ \E i \in ModuleEntries : DerivedName(Listing[i]) # <<>>) =>
        Range(query.modules) = {DerivedName(Listing[i]) : i \in ModuleEntries} \ {<<>>}

\* the archive without its bundled-library entries
WithoutBundledLibs(archive) ==
    [archive EXCEPT !.namelist = SelectSeq(@, LAMBDA name : ~NamedLikeBundledLib(name))]
RealExtensions ==
    {i \in ModuleEntries : ModuleName(Listing[i]) # <<>>}
BundledLibs == {i \in 1..Len(Listing) : NamedLikeBundledLib(Listing[i])}
\* C13: of an archive that holds bundled shared libraries beside real
\* extension modules, the module list holds the name of every real
\* extension module and is the list of the archive without the bundled
\* libraries: no name comes from a bundled-library entry.
C13_BundledLibsExcluded ==
    (Classified /\ BundledLibs # {} /\ RealExtensions # {}) =>
        /\ \A i \in RealExtensions : ModuleName(Listing[i]) \in Range(query.modules)
        /\ query.modules = extract_native_modules(WithoutBundledLibs(query.archive))[1]
\* a bundled library whose name ends with .so beside an extension module
C13_Witness ==
    /\ Classified /\ RealExtensions # {}
    /\ \E i \in BundledLibs : EndsWithExtension(Listing[i])
    /\ \E i \in BundledLibs : ~EndsWithExtension(Listing[i])

\* C14: the module list is in strictly ascending order, so it is sorted and
\* has no duplicates, also when it is the list of top-level names.
C14_SortedNoDuplicates ==
    Classified =>
        \A i, j \in 1..Len(query.modules) :
            i < j => StrLess(query.modules[i], query.modules[j])

(***************************************************************************)
(* Properties of the probe loop (Spec)                                     *)
(***************************************************************************)
\* the step is a probe of the task of w with the given outcome
ProbeStep(w, outcome) ==
    pc[w] = "probe" /\ calls'[w] = Append(calls[w], <<"probe", outcome>>)
ProbedModule(w) == frame[w].modules_to_test[frame[w].next]
IsLastProbe(w) == frame[w].next = Len(frame[w].modules_to_test)
\* the probe's stderr says the entry is no module: no export function, or
\* module not found
SkipDiagnostic(stderr) ==
    \/ Contains(<<"d","y","n","a","m","i","c"," ","m","o","d","u","l","e"," ","d","o","e","s"," ","n","o","t"," ","d","e","f","i","n","e"," ","m","o","d","u","l","e"," ","e","x","p","o","r","t"," ","f","u","n","c","t","i","o","n">>, stderr)
    \/ Contains(<<"M","o","d","u","l","e","N","o","t","F","o","u","n","d","E","r","r","o","r">>, stderr)
\* the outcome the loop's end gives from the lists failed and whitelisted,
\* the keys used and the count tested, after the log lines logs
FinalizedFrom(r, logs, failed, whitelisted_list, used, tested) ==
    /\ r.finish_calls = 1
    /\ r.success = (failed = <<>>)
    /\ r.errors = failed
    /\ r.whitelisted = whitelisted_list
    /\ r.has_used /\ r.used_whitelist_local = used
    /\ Len(r.logs) > Len(logs) /\ SubSeq(r.logs, 1, Len(logs)) = logs
    /\ r.logs[Len(logs) + 1] = <<"Tested native modules", tested>>

\* C15: a probe that exits non-zero with a no-export-function or a
\* module-not-found diagnostic leaves the failed list, the whitelisted
\* list, the used keys, the tested counter and the log buffer as they were;
\* after the last module the outcome is the one these unchanged values
\* give, so the skipped probe does not make the package fail.
C15_SkippedProbeChangesNothing ==
    [][\A w \in WheelSet :
          (ProbeStep(w, "nonzero") /\ SkipDiagnostic(proc_result'[w].stderr)) =>
              IF IsLastProbe(w)
              THEN /\ pc'[w] = "done"
                   /\ FinalizedFrom(result'[w], result[w].logs, frame[w].failed_imports,
                                    frame[w].whitelisted_imports,
                                    frame[w].used_whitelist_local, frame[w].tested_count)
              ELSE /\ pc'[w] = "probe"
                   /\ result'[w] = result[w]
                   /\ frame'[w] = [frame[w] EXCEPT !.next = @ + 1]]_vars
\* both probes of b.whl ended with a non-zero exit, the last one skipped,
\* none was counted and the package has passed
C15_Witness ==
    /\ pc["b.whl"] = "done" /\ SkipDiagnostic(proc_result["b.whl"].stderr)
    /\ Len(calls["b.whl"]) = 5
    /\ calls["b.whl"][4] = <<"probe", "nonzero">>
    /\ calls["b.whl"][5] = <<"probe", "nonzero">>
    /\ result["b.whl"].success
    /\ result["b.whl"].logs[Len(result["b.whl"].logs) - 1]
          = <<"Tested native modules", 0>>

\* C16: a probe that times out counts as tested, gets the error text
\* "Import timeout (module may be hanging)" and goes through the whitelist
\* matcher: matched, it is appended to the whitelisted list and its key
\* marked used; otherwise it is appended to the failed list; and the loop
\* goes on with the next module, or ends with the outcome these lists give.
C16_TimeoutIsAFailure ==
    [][\A w \in WheelSet :
          ProbeStep(w, "timeout") =>
              LET module == ProbedModule(w)
                  entry == <<module, <<"I","m","p","o","r","t"," ","t","i","m","e","o","u","t"," ","(","m","o","d","u","l","e"," ","m","a","y"," ","b","e"," ","h","a","n","g","i","n","g",")">>>>
                  matched == is_whitelisted(w, module, entry[2], whitelist)
                  failed == IF matched THEN frame[w].failed_imports
                            ELSE Append(frame[w].failed_imports, entry)
                  listed == IF matched THEN Append(frame[w].whitelisted_imports, entry)
                            ELSE frame[w].whitelisted_imports
                  used == IF matched
                          THEN frame[w].used_whitelist_local \cup {<<w, module>>}
                          ELSE frame[w].used_whitelist_local
                  logs == result[w].logs
                             \o << <<"Testing import", module>>,
                                   <<IF matched THEN "Whitelisted" ELSE "Failed", entry[2]>> >>
              IN  IF IsLastProbe(w)
                  THEN /\ pc'[w] = "done"
                       /\ FinalizedFrom(result'[w], logs, failed, listed, used,
                                        frame[w].tested_count + 1)
                  ELSE /\ pc'[w] = "probe"
                       /\ result'[w] = [result[w] EXCEPT !.logs = logs]
                       /\ frame'[w] = [frame[w] EXCEPT
                                          !.next = @ + 1,
                                          !.tested_count = @ + 1,
                                          !.failed_imports = failed,
                                          !.whitelisted_imports = listed,
                                          !.used_whitelist_local = used]]_vars
\* the probe of b.native timed out and is a failure, the probe of b._speed
\* timed out after it and is whitelisted
C16_Witness ==
    /\ pc["b.whl"] = "done" /\ proc_result["b.whl"].timeout
    /\ Len(calls["b.whl"]) = 5
    /\ calls["b.whl"][4] = <<"probe", "timeout">>
    /\ calls["b.whl"][5] = <<"probe", "timeout">>
    /\ result["b.whl"].errors = << <<ModNative, ImportTimeoutMsg>> >>
    /\ result["b.whl"].whitelisted = << <<ModSpeed, ImportTimeoutMsg>> >>
    /\ result["b.whl"].used_whitelist_local = {<<"b.whl", ModSpeed>>}

(***************************************************************************)
(* Properties of the coordinator and of a task's lifecycle (Spec)          *)
(***************************************************************************)
\* how far a task has come
Progress(p) ==
    CASE p = "unsubmitted" -> 0 [] p = "queued" -> 1 [] p = "venv" -> 2
      [] p = "install" -> 3 [] p = "classify" -> 4 [] p = "probe" -> 5
      [] p = "done" -> 6 [] p = "collected" -> 7
AggregateChanges ==
    \/ failed_wheels' # failed_wheels
    \/ whitelisted_wheels' # whitelisted_wheels
    \/ used_whitelist' # used_whitelist
\* the step merges the result r of wheel w into the aggregate
Merges(w, r) ==
    /\ HasKey(failed_wheels', w) <=> ~r.success
    /\ ~r.success => DictGet(failed_wheels', w, <<>>) = r.errors
    /\ HasKey(whitelisted_wheels', w) <=> r.whitelisted # <<>>
    /\ r.whitelisted # <<>> => DictGet(whitelisted_wheels', w, <<>>) = r.whitelisted
    /\ used_whitelist' = used_whitelist \cup r.used_whitelist_local
    /\ \A v \in WheelSet \ {w} :
          /\ HasKey(failed_wheels', v) <=> HasKey(failed_wheels, v)
          /\ DictGet(failed_wheels', v, <<>>) = DictGet(failed_wheels, v, <<>>)
          /\ HasKey(whitelisted_wheels', v) <=> HasKey(whitelisted_wheels, v)
          /\ DictGet(whitelisted_wheels', v, <<>>) = DictGet(whitelisted_wheels, v, <<>>)

\* C17: one task per discovered wheel, and none for another: a task is
\* queued once, by main's submit, and its position never goes back; main
\* takes each finished task's result once; the failure map, the whitelisted
\* map and the used keys change only in main's step that merges the result
\* it holds, a step in which no task moves, and that step merges this
\* result; when main exits it has merged as many results as there are
\* wheels.
C17_MergedOnceByMain ==
    [][/\ \A w \in WheelSet :
             /\ Progress(pc'[w]) >= Progress(pc[w])
             /\ (pc'[w] = "queued" /\ pc[w] # "queued") =>
                   /\ pc_main = "submit" /\ pc[w] = "unsubmitted"
                   /\ w \in Range(wheel_files)
             /\ (pc_main = "submit" /\ pc_main' # "submit") =>
                   (pc'[w] = "queued" <=> w \in Range(wheel_files))
             /\ (collecting' = w /\ collecting # w) =>
                   /\ collecting = "" /\ pc[w] = "done" /\ pc'[w] = "collected"
                   /\ completed_count' = completed_count + 1
             /\ (pc'[w] = "collected" /\ pc[w] # "collected") => collecting' = w
       /\ AggregateChanges =>
             /\ collecting # "" /\ collecting' = ""
             /\ print_lock = MainThread
             /\ UNCHANGED task_vars
       /\ (collecting # "" /\ collecting' # collecting) =>
             /\ collecting' = ""
             /\ Merges(collecting, result[collecting])
       /\ (pc_main' = "exited" /\ pc_main = "as_completed") =>
             /\ completed_count = Len(wheel_files)
             /\ \A w \in WheelSet :
                   pc[w] = IF w \in Range(wheel_files) THEN "collected" ELSE "unsubmitted"
      ]_vars
\* both wheels were verified and merged: a.whl into the failure map, b.whl
\* into the whitelisted map and the used keys
C17_Witness ==
    /\ Exited /\ completed_count = 2
    /\ HasKey(failed_wheels, "a.whl") /\ ~HasKey(failed_wheels, "b.whl")
    /\ HasKey(whitelisted_wheels, "b.whl")
    /\ used_whitelist # {}

\* C18: a result is handed over (its task is done) finished exactly once,
\* with nothing logged after the finish; before that it is not finished;
\* and once handed over it is never changed again, by its task, by another
\* task or by main.
C18_FinishedOnceThenReadOnly ==
    [][\A w \in WheelSet :
          /\ TaskOver(w)' =>
                /\ result'[w].finish_calls = 1
                /\ result'[w].end_time = Len(result'[w].logs)
                /\ result'[w].wheel_name = w
          /\ ~TaskOver(w)' => result'[w].finish_calls = 0
          /\ TaskOver(w) => result'[w] = result[w]
      ]_vars
\* main has exited with the results of a task that raised and of a task
\* that ran to the end of its probes
C18_Witness ==
    /\ Exited /\ Raised("a.whl") /\ pc["a.whl"] = "collected"
    /\ pc["b.whl"] = "collected" /\ result["b.whl"].has_used
    /\ result["b.whl"].whitelisted # <<>>
    /\ result["a.whl"].finish_calls = 1 /\ result["b.whl"].finish_calls = 1

\* the task of w is between its start and its return
TaskRuns(w) == pc[w] \in {"venv", "install", "classify", "probe"}
\* C19: a task's temporary directory, which holds its venv, exists exactly
\* while the task runs: it is made by the step that starts the task and
\* removed by the step that ends it, whether that is a return after a
\* failed venv or install, the return at the end, or an exception; and no
\* step of a task or of main touches the directory of another task.
C19_TempDirScopedToTask ==
    [][\A w \in WheelSet :
          /\ temp_dir'[w] <=> TaskRuns(w)'
          /\ temp_dir'[w] # temp_dir[w] =>
                /\ pc'[w] # pc[w]
                /\ \A v \in WheelSet \ {w} : pc'[v] = pc[v] /\ temp_dir'[v] = temp_dir[v]
                /\ UNCHANGED main_vars
      ]_vars
\* a.whl returned early after a failed venv, b.whl raised during a probe,
\* the other task still running at that time; both directories are gone
C19_Witness ==
    /\ VenvFailed("a.whl") /\ pc["a.whl"] = "done"
    /\ Raised("b.whl") /\ Len(calls["b.whl"]) = 4 /\ pc["b.whl"] = "done"
    /\ ~temp_dir["a.whl"] /\ ~temp_dir["b.whl"]

(***************************************************************************)
(* Termination (SpecLive)                                                  *)
(***************************************************************************)
SummaryPrinted == \E i \in 1..Len(out) : out[i].line[1] = "Test Summary"
\* C20: once setup has passed and the tasks are to be submitted, the run
\* comes to its exit with every task over and its result merged and with
\* the summary printed.
C20_RunTerminates ==
    (pc_main = "submit") ~>
        (/\ Exited /\ SummaryPrinted
         /\ completed_count = Len(wheel_files)
         /\ \A w \in Range(wheel_files) : pc[w] = "collected"
         /\ \A w \in Range(wheel_files) :
               HasKey(failed_wheels, w) <=> ~result[w].success)
\* the run ended with the summary after one task failed at its venv and the
\* other at a probe
C20_Witness ==
    /\ Exited /\ SummaryPrinted /\ completed_count = 2
    /\ VenvFailed("a.whl")
    /\ HasCall("b.whl", "probe", {"timeout", "nonzero"})
    /\ Len(failed_wheels) = 2

(***************************************************************************)
(* The snippet round trip (SpecSnippet)                                    *)
(***************************************************************************)
SecondRunDone == query.state = "second"
\* C21: with the printed snippet added to the whitelist and the external
\* calls giving what they gave in the first run, the second run has an empty
\* failure map and exit code 0.
C21_SnippetMakesRunPass ==
    SecondRunDone =>
        /\ query.second.failed_wheels = EmptyDict
        /\ query.second.exit_code = 0
====
